---- MODULE Spec2Model ----
(***************************************************************************)
(* One deck of PortaDJ: the useAudioDeck hook (src/hooks/useAudioDeck.ts)  *)
(* with the Web Audio nodes it drives and the gesture conversion of the    *)
(* Deck component (src/unnamed/part_000).                                  *)
(*                                                                         *)
(* Units.  Positions and durations are integers in units of 0.01 s.  The   *)
(* audio clock (audioContext.currentTime) counts ticks of ClockUnit        *)
(* position units (0.5 s).  A playback rate v is stored as v * RateScale, *)
(* so 0.92, 1 and 1.08 are 23, 25 and 27 and (elapsed * rate) is exact.    *)
(* Sample positions are integers; a sample rate is in samples per          *)
(* position unit.  Fixed point with round-to-nearest stands for the IEEE   *)
(* doubles of the source.                                                  *)
(*                                                                         *)
(* React.  A handler reads the state values captured by its closure at the *)
(* last render (parameter cl) and the refs as they are now (in w); its     *)
(* setState calls are collected in w.st and committed when the handler     *)
(* returns, so a handler called by another handler still reads cl.         *)
(***************************************************************************)
EXTENDS Integers, Sequences, FiniteSets, TLC

VARIABLES
    state,          \* the hook's React state (useState cells)
    refs,           \* refs.current: source, startTime, pausedAt
    scratchState,   \* scratchState.current
    connected,      \* nodes connected to lowFilter besides refs.source
    now,            \* audioContext.currentTime, in clock ticks
    decoding,       \* files whose decodeAudioData is pending
    analyses,       \* buffers whose analyzeBPM promise is pending
    estimator,      \* the call of analyzeBPM that is followed step by step
    tapTimes,       \* Deck: tapTimesRef, as the intervals in ms between the recorded taps
    frame,          \* the output frames left in the running onaudioprocess call, 0 if none
    playingBefore,  \* history: isPlaying when the platter was pressed on a deck not scratching
    cueTimer,       \* Deck: cueTimerRef, with the render the pending callback was created in
    cuePresses      \* history: the presses of the CUE button and the cue actions they triggered

vars == <<state, refs, scratchState, connected, now, decoding, analyses, estimator, tapTimes,
          frame, playingBefore, cueTimer, cuePresses>>

----------------------------------------------------------------------------
(* Bounds of the model *)

MaxClock == 1       \* the audio clock stops after this many ticks
MaxProcs == 1       \* startScratch is not offered beyond this many connected processors
MaxHeld == 1        \* the platter is not pressed with more than this many processors connected
MaxPresses == 3     \* the CUE button is not pressed more often than this

(* Scaling of the reals of the source *)

RateScale == 25     \* playbackRate 1.0
ClockUnit == 2 * RateScale   \* position units per clock tick (0.5 s)


(* Program constants, in the units of the model *)

CueTolerance == 10              \* 0.1 s
JumpEpsilon == 5                \* 0.05 s
SECONDS_PER_REVOLUTION == 180   \* 1.8 s
PITCH_RANGE == 2                \* 0.08 of RateScale
BlockFrames == 1024             \* frames per onaudioprocess block
HalfTurn == 180                 \* Math.PI, angles in degrees
NormScale == 2                  \* slider positions are 0, 1/2 and 1
NoCue == -1                     \* undefined, the result of a find that fails

----------------------------------------------------------------------------
(* Files and the buffers they decode to *)

NoBuffer == "none"
Files == {"a.mp3", "b.mp3"}
Buffers == Files

Duration(b) == CASE b = "a.mp3" -> 60 [] b = "b.mp3" -> 30 [] OTHER -> 0

\* buffer.sampleRate, in samples per position unit: decodeAudioData resamples every
\* file to the sample rate of the audio context
SampleRate(b) == 2

DetectedBpm(b) == CASE b = "a.mp3" -> 120 [] b = "b.mp3" -> 90 [] OTHER -> 0

----------------------------------------------------------------------------
(* Arithmetic *)

Min(a, b) == IF a <= b THEN a ELSE b
Max(a, b) == IF a >= b THEN a ELSE b
Abs(a) == IF a >= 0 THEN a ELSE -a

\* d * 0.5, rounded to nearest
Half(d) == IF d >= 0 THEN (d + 1) \div 2 ELSE -((1 - d) \div 2)

\* samples / sampleRate
SamplesToTime(s, b) == s \div SampleRate(b)

\* (audioContext.currentTime - startTime) * playbackRate, in position units
Elapsed(time, startTime, rate) == ((time - startTime) * ClockUnit * rate) \div RateScale

----------------------------------------------------------------------------
(* Nodes *)

NullSource == [buffer |-> NoBuffer, pos |-> 0, playbackRate |-> 0]

\* audioContext.createBufferSource() ... source.start(0, offset)
NewSource(b, offset, rate) == [buffer |-> b, pos |-> offset, playbackRate |-> rate]

NoProcs == [b \in Buffers |-> 0]

NumProcs(c) == c.procs["a.mp3"] + c.procs["b.mp3"]

----------------------------------------------------------------------------
(* Initial state: the hook after its first effect has built the node chain *)

\* No tap has been recorded: the array has a time for each tap, one more than
\* intervals
NoTaps == [count |-> 0, gaps |-> <<>>]

\* No call of analyzeBPM is being followed
NoCall == [pc |-> "none"]

\* cueTimerRef.current = null
NoTimer == [armed |-> FALSE]

\* The CUE button has not been pressed
NoPresses == [down |-> FALSE, presses |-> 0, actions |-> 0, last |-> "none"]


Init ==
    /\ state = [isPlaying |-> FALSE, currentTime |-> 0, buffer |-> NoBuffer,
                duration |-> 0, cuePoints |-> <<>>, fileName |-> NoBuffer,
                bpm |-> 0, playbackRate |-> RateScale]
    /\ refs = [source |-> NullSource, startTime |-> 0, pausedAt |-> 0]
    /\ scratchState = [isScratching |-> FALSE, currentSample |-> 0, targetSample |-> 0,
                       wasPlayingBeforeScratch |-> FALSE, processor |-> NoBuffer]
    /\ connected = [procs |-> NoProcs, orphanSources |-> 0]
    /\ now = 0
    /\ decoding = {}
    /\ analyses = {}
    /\ estimator = NoCall
    /\ tapTimes = NoTaps
    /\ frame = 0
    /\ playingBefore = FALSE
    /\ cueTimer = NoTimer
    /\ cuePresses = NoPresses

\* What a handler works on: pending state updates, refs, the node graph and the
\* reading of the audio clock
World == [st |-> state, refs |-> refs, ss |-> scratchState, conn |-> connected,
          now |-> now]

----------------------------------------------------------------------------
(* Transport *)

\* handlePlay without the check for the end of the track
handlePlayNoWrap(cl, w) ==
    IF cl.buffer = NoBuffer THEN w
    ELSE IF cl.isPlaying THEN w
    ELSE IF w.ss.isScratching THEN w
    ELSE [w EXCEPT !.st.currentTime = w.refs.pausedAt,
                   !.conn.orphanSources =
                       IF w.refs.source # NullSource THEN @ + 1 ELSE @,
                   !.refs.source = NewSource(cl.buffer, w.refs.pausedAt, cl.playbackRate),
                   !.refs.startTime = w.now,
                   !.st.isPlaying = TRUE]

\* handlePlay without the guard against a scratch in progress
handlePlayWhileScratching(cl, w) ==
    IF cl.buffer = NoBuffer THEN w
    ELSE IF cl.isPlaying THEN w
    ELSE LET offset == w.refs.pausedAt
             wrap == offset >= Duration(cl.buffer)
             from == IF wrap THEN 0 ELSE offset
         IN [w EXCEPT !.refs.pausedAt = IF wrap THEN 0 ELSE @,
                      !.st.currentTime = from,
                      !.conn.orphanSources =
                          IF w.refs.source # NullSource THEN @ + 1 ELSE @,
                      !.refs.source = NewSource(cl.buffer, from, cl.playbackRate),
                      !.refs.startTime = w.now,
                      !.st.isPlaying = TRUE]

\* handlePlay that does not record the time of the start
handlePlayStaleStart(cl, w) ==
    IF cl.buffer = NoBuffer THEN w
    ELSE IF cl.isPlaying THEN w
    ELSE IF w.ss.isScratching THEN w
    ELSE LET offset == w.refs.pausedAt
             wrap == offset >= Duration(cl.buffer)
             from == IF wrap THEN 0 ELSE offset
         IN [w EXCEPT !.refs.pausedAt = IF wrap THEN 0 ELSE @,
                      !.st.currentTime = from,
                      !.conn.orphanSources =
                          IF w.refs.source # NullSource THEN @ + 1 ELSE @,
                      !.refs.source = NewSource(cl.buffer, from, cl.playbackRate),
                      !.st.isPlaying = TRUE]

\* handlePlay: play()
handlePlay(cl, w) ==
    IF cl.buffer = NoBuffer THEN w
    ELSE IF cl.isPlaying THEN w
    ELSE IF w.ss.isScratching THEN w
    ELSE LET offset == w.refs.pausedAt
             wrap == offset >= Duration(cl.buffer)
             from == IF wrap THEN 0 ELSE offset
         IN [w EXCEPT !.refs.pausedAt = IF wrap THEN 0 ELSE @,
                      !.st.currentTime = from,
                      !.conn.orphanSources =
                          IF w.refs.source # NullSource THEN @ + 1 ELSE @,
                      !.refs.source = NewSource(cl.buffer, from, cl.playbackRate),
                      !.refs.startTime = w.now,
                      !.st.isPlaying = TRUE]

\* handlePause: pause()
handlePause(cl, w) ==
    IF ~cl.isPlaying THEN w
    ELSE LET w1 == IF w.refs.source # NullSource
                   THEN [w EXCEPT !.refs.pausedAt =
                                      Min(@ + Elapsed(w.now, w.refs.startTime, cl.playbackRate),
                                          cl.duration),
                                  !.refs.source = NullSource]
                   ELSE w
         IN [w1 EXCEPT !.st.currentTime = w1.refs.pausedAt,
                       !.st.isPlaying = FALSE]

\* seek without the clamp of time to [0, duration]
seekUnclamped(cl, w, time) ==
    IF cl.buffer = NoBuffer THEN w
    ELSE IF w.ss.isScratching
         THEN [w EXCEPT !.ss.targetSample = time * SampleRate(cl.buffer)]
         ELSE LET w1 == [w EXCEPT !.st.currentTime = time,
                                  !.refs.pausedAt = time]
              IN IF cl.isPlaying
                 THEN [w1 EXCEPT !.refs.source =
                                     NewSource(cl.buffer, time, cl.playbackRate),
                                 !.refs.startTime = w.now]
                 ELSE w1

\* seek without the branch for a scratch in progress
seekIgnoringScratch(cl, w, time) ==
    IF cl.buffer = NoBuffer THEN w
    ELSE LET newTime == Max(0, Min(time, cl.duration))
             w1 == [w EXCEPT !.st.currentTime = newTime,
                             !.refs.pausedAt = newTime]
         IN IF cl.isPlaying
            THEN [w1 EXCEPT !.refs.source =
                                NewSource(cl.buffer, newTime, cl.playbackRate),
                            !.refs.startTime = w.now]
            ELSE w1

\* seek that restarts the source without resetting startTime
seekKeepingStartTime(cl, w, time) ==
    IF cl.buffer = NoBuffer THEN w
    ELSE LET newTime == Max(0, Min(time, cl.duration))
         IN IF w.ss.isScratching
            THEN [w EXCEPT !.ss.targetSample = newTime * SampleRate(cl.buffer)]
            ELSE LET w1 == [w EXCEPT !.st.currentTime = newTime,
                                     !.refs.pausedAt = newTime]
                 IN IF cl.isPlaying
                    THEN [w1 EXCEPT !.refs.source =
                                        NewSource(cl.buffer, newTime, cl.playbackRate)]
                    ELSE w1

\* seek(time)
seek(cl, w, time) ==
    IF cl.buffer = NoBuffer THEN w
    ELSE LET newTime == Max(0, Min(time, cl.duration))
         IN IF w.ss.isScratching
            THEN [w EXCEPT !.ss.targetSample = newTime * SampleRate(cl.buffer)]
            ELSE LET w1 == [w EXCEPT !.st.currentTime = newTime,
                                     !.refs.pausedAt = newTime]
                 IN IF cl.isPlaying
                    THEN [w1 EXCEPT !.refs.source =
                                        NewSource(cl.buffer, newTime, cl.playbackRate),
                                    !.refs.startTime = w.now]
                    ELSE w1

\* The position the poll computes while playing
CalculatedTime(cl, w) ==
    w.refs.pausedAt + Elapsed(w.now, w.refs.startTime, cl.playbackRate)

\* update with an auto-stop that waits until the position is past the end
updateStrict(cl, w) ==
    IF w.ss.isScratching
    THEN IF cl.buffer # NoBuffer
         THEN LET time == SamplesToTime(w.ss.currentSample, cl.buffer)
              IN [w EXCEPT !.st.currentTime = Max(0, Min(time, Duration(cl.buffer))),
                           !.refs.pausedAt = time]
         ELSE w
    ELSE IF cl.isPlaying /\ w.refs.source # NullSource
    THEN IF CalculatedTime(cl, w) > cl.duration /\ cl.duration > 0
         THEN LET w1 == handlePause(cl, w)
              IN [w1 EXCEPT !.st.currentTime = 0, !.refs.pausedAt = 0]
         ELSE [w EXCEPT !.st.currentTime = CalculatedTime(cl, w)]
    ELSE w

\* update: one run of the requestAnimationFrame loop
update(cl, w) ==
    IF w.ss.isScratching
    THEN IF cl.buffer # NoBuffer
         THEN LET time == SamplesToTime(w.ss.currentSample, cl.buffer)
              IN [w EXCEPT !.st.currentTime = Max(0, Min(time, Duration(cl.buffer))),
                           !.refs.pausedAt = time]
         ELSE w
    ELSE IF cl.isPlaying /\ w.refs.source # NullSource
    THEN IF CalculatedTime(cl, w) >= cl.duration /\ cl.duration > 0
         THEN LET w1 == handlePause(cl, w)
              IN [w1 EXCEPT !.st.currentTime = 0, !.refs.pausedAt = 0]
         ELSE [w EXCEPT !.st.currentTime = CalculatedTime(cl, w)]
    ELSE w

\* The effect on [playbackRate]: runs after a render that changed playbackRate
playbackRateEffect(w) ==
    IF w.refs.source # NullSource /\ ~w.ss.isScratching
    THEN [w EXCEPT !.refs.source.playbackRate = w.st.playbackRate]
    ELSE w

----------------------------------------------------------------------------
(* Scratch engine *)

\* startScratch that leaves the playing source running
startScratchKeepingSource(cl, w) ==
    IF cl.buffer = NoBuffer THEN w
    ELSE LET startSample == w.refs.pausedAt * SampleRate(cl.buffer)
         IN [w EXCEPT !.ss.wasPlayingBeforeScratch = cl.isPlaying,
                      !.ss.isScratching = TRUE,
                      !.st.isPlaying = FALSE,
                      !.ss.currentSample = startSample,
                      !.ss.targetSample = startSample,
                      !.ss.processor = cl.buffer,
                      !.conn.procs[cl.buffer] = @ + 1]

\* startScratch that marks the deck as scratching even when no buffer is loaded
startScratchUnguarded(cl, w) ==
    IF cl.buffer = NoBuffer
    THEN [w EXCEPT !.ss.wasPlayingBeforeScratch = cl.isPlaying,
                   !.ss.isScratching = TRUE]
    ELSE LET startSample == w.refs.pausedAt * SampleRate(cl.buffer)
         IN [w EXCEPT !.ss.wasPlayingBeforeScratch = cl.isPlaying,
                      !.ss.isScratching = TRUE,
                      !.refs.source = IF cl.isPlaying THEN NullSource ELSE @,
                      !.st.isPlaying = FALSE,
                      !.ss.currentSample = startSample,
                      !.ss.targetSample = startSample,
                      !.ss.processor = cl.buffer,
                      !.conn.procs[cl.buffer] = @ + 1]

\* startScratch()
startScratch(cl, w) ==
    IF cl.buffer = NoBuffer THEN w
    ELSE LET startSample == w.refs.pausedAt * SampleRate(cl.buffer)
         IN [w EXCEPT !.ss.wasPlayingBeforeScratch = cl.isPlaying,
                      !.ss.isScratching = TRUE,
                      !.refs.source = IF cl.isPlaying THEN NullSource ELSE @,
                      !.st.isPlaying = FALSE,
                      !.ss.currentSample = startSample,
                      !.ss.targetSample = startSample,
                      !.ss.processor = cl.buffer,
                      !.conn.procs[cl.buffer] = @ + 1]

\* stopScratch that never resumes playback
stopScratchNoResume(cl, w) ==
    IF ~w.ss.isScratching THEN w
    ELSE LET w1 == IF w.ss.processor # NoBuffer
                   THEN [w EXCEPT !.conn.procs[w.ss.processor] = @ - 1,
                                  !.ss.processor = NoBuffer]
                   ELSE w
             w2 == [w1 EXCEPT !.ss.isScratching = FALSE]
         IN IF cl.buffer # NoBuffer
            THEN LET t == SamplesToTime(w2.ss.currentSample, cl.buffer)
                 IN [w2 EXCEPT !.refs.pausedAt = t, !.st.currentTime = t]
            ELSE w2

\* stopScratch()
stopScratch(cl, w) ==
    IF ~w.ss.isScratching THEN w
    ELSE LET w1 == IF w.ss.processor # NoBuffer
                   THEN [w EXCEPT !.conn.procs[w.ss.processor] = @ - 1,
                                  !.ss.processor = NoBuffer]
                   ELSE w
             w2 == [w1 EXCEPT !.ss.isScratching = FALSE]
             w3 == IF cl.buffer # NoBuffer
                   THEN LET t == SamplesToTime(w2.ss.currentSample, cl.buffer)
                        IN [w2 EXCEPT !.refs.pausedAt = t, !.st.currentTime = t]
                   ELSE w2
         IN IF w3.ss.wasPlayingBeforeScratch THEN handlePlay(cl, w3) ELSE w3

\* buffer.length, in samples
BufferLength(b) == Duration(b) * SampleRate(b)

\* The reads of one output frame without the cap of idxCeil at maxSample
FrameReadsUncapped(idx, b) ==
    IF idx < 0 \/ idx > BufferLength(b) - 1 THEN {}
    ELSE {idx, idx + 1}

\* The indices of chanL and chanR one output frame reads at position idx: none when
\* idx is out of range (the frame is silent), else idxFloor and idxCeil
FrameReads(idx, b) ==
    IF idx < 0 \/ idx > BufferLength(b) - 1 THEN {}
    ELSE {idx, Min(idx + 1, BufferLength(b) - 1)}

\* The indices read during n output frames of onaudioprocess over buffer b; once
\* the position has settled every further frame reads the same indices
RECURSIVE BlockReads(_, _, _, _)
BlockReads(current, target, n, b) ==
    IF n = 0 THEN {}
    ELSE LET idx == current + Half(target - current)
         IN FrameReads(idx, b) \cup
                (IF idx = current THEN {} ELSE BlockReads(idx, target, n - 1, b))

\* The damping loop of onaudioprocess over n output frames
RECURSIVE Damp(_, _, _)
Damp(current, target, n) ==
    IF n = 0 \/ current = target THEN current
    ELSE Damp(current + Half(target - current), target, n - 1)

\* One output frame that jumps straight to the target: a damping factor of 1
FrameOutcomesUndamped(current, target) == {target}

\* One output frame of onaudioprocess: currentSample += (targetSample - currentSample)
\* * 0.5, the sum rounded to a position the number format holds. Positions are
\* counted in units of the last place: an even difference is halved exactly, an odd
\* one leaves the sum midway between two positions and the last bit of the operands
\* decides which of them it rounds to
FrameOutcomes(current, target) ==
    LET diff == target - current
    IN IF diff % 2 = 0 THEN {current + diff \div 2}
       ELSE {current + (diff - 1) \div 2, current + (diff + 1) \div 2}

----------------------------------------------------------------------------
(* Cue points *)

\* [...prev, t].sort((a, b) => a - b), prev already in the order it is stored
RECURSIVE SortedInsert(_, _)
SortedInsert(prev, t) ==
    IF prev = <<>> THEN <<t>>
    ELSE IF t < Head(prev) THEN <<t>> \o prev
    ELSE <<Head(prev)>> \o SortedInsert(Tail(prev), t)

\* [...prev, t] sorted by insertion of every element, as Array.prototype.sort orders it
RECURSIVE SortAsc(_)
SortAsc(s) == IF s = <<>> THEN <<>> ELSE SortedInsert(SortAsc(Tail(s)), Head(s))

\* prev.filter(c => Math.abs(c - t) >= 0.1)
RECURSIVE FilterFar(_, _)
FilterFar(prev, t) ==
    IF prev = <<>> THEN <<>>
    ELSE IF Abs(Head(prev) - t) >= CueTolerance
         THEN <<Head(prev)>> \o FilterFar(Tail(prev), t)
         ELSE FilterFar(Tail(prev), t)

\* cuePoints.find(c => c > t): the first such element, or NoCue
RECURSIVE FindAfter(_, _)
FindAfter(cues, t) ==
    IF cues = <<>> THEN NoCue
    ELSE IF Head(cues) > t THEN Head(cues)
    ELSE FindAfter(Tail(cues), t)

\* addCuePoint that takes only a cue point exactly at currentTime as already there
addCuePointExactOnly(cl, w) ==
    LET exists == \E i \in 1..Len(cl.cuePoints) : cl.cuePoints[i] = cl.currentTime
    IN IF exists THEN w
       ELSE [w EXCEPT !.st.cuePoints = SortAsc(Append(@, cl.currentTime))]

\* addCuePoint without the test for a cue point already near currentTime
addCuePointAlways(cl, w) ==
    [w EXCEPT !.st.cuePoints = SortAsc(Append(@, cl.currentTime))]

\* addCuePoint()
addCuePoint(cl, w) ==
    LET exists == \E i \in 1..Len(cl.cuePoints) :
                      Abs(cl.cuePoints[i] - cl.currentTime) < CueTolerance
    IN IF exists THEN w
       ELSE [w EXCEPT !.st.cuePoints = SortAsc(Append(@, cl.currentTime))]

\* removeCuePoint that removes only the first cue point within 0.1 s of currentTime
removeCuePointFirst(cl, w) ==
    LET near == {i \in 1..Len(w.st.cuePoints) :
                     Abs(w.st.cuePoints[i] - cl.currentTime) < CueTolerance}
    IN IF near = {} THEN w
       ELSE LET first == CHOOSE i \in near : \A j \in near : i <= j
            IN [w EXCEPT !.st.cuePoints =
                             SubSeq(@, 1, first - 1) \o SubSeq(@, first + 1, Len(@))]

\* removeCuePoint()
removeCuePoint(cl, w) ==
    [w EXCEPT !.st.cuePoints = FilterFar(@, cl.currentTime)]

\* The target of a jumpToNextCue that goes to 0 instead of wrapping to the first cue
NextCueTargetNoWrap(cues, t) ==
    IF Len(cues) > 0
    THEN LET nextCue == FindAfter(cues, t + JumpEpsilon)
         IN IF nextCue # NoCue THEN nextCue ELSE 0
    ELSE 0

\* The target jumpToNextCue computes
NextCueTarget(cues, t) ==
    IF Len(cues) > 0
    THEN LET nextCue == FindAfter(cues, t + JumpEpsilon)
         IN IF nextCue # NoCue THEN nextCue ELSE cues[1]
    ELSE 0

\* jumpToNextCue()
jumpToNextCue(cl, w) ==
    LET target == NextCueTarget(cl.cuePoints, cl.currentTime)
        w1 == IF w.ss.isScratching THEN stopScratch(cl, w) ELSE w
    IN seek(cl, w1, target)

----------------------------------------------------------------------------
(* Gesture conversion of the Deck component *)

\* handleLpMove without the normalisation of the angular delta
TimeDeltaUnwrapped(lastAngle, currentAngle) ==
    ((currentAngle - lastAngle) * SECONDS_PER_REVOLUTION) \div (2 * HalfTurn)

\* handleLpMove: the time delta of a pointer move from lastAngle to currentAngle
TimeDelta(lastAngle, currentAngle) ==
    LET delta == currentAngle - lastAngle
        d1 == IF delta > HalfTurn THEN delta - 2 * HalfTurn ELSE delta
        d2 == IF d1 < -HalfTurn THEN d1 + 2 * HalfTurn ELSE d1
    IN (d2 * SECONDS_PER_REVOLUTION) \div (2 * HalfTurn)

\* handleTempoMove without the clamp of the pointer position
NormalizedUnclamped(relativeY) == relativeY

\* handleTempoMove: the pointer at relativeY / NormScale of the height of the rail
\* below its top, clamped to the rail
Normalized(relativeY) == Max(0, Min(NormScale, relativeY))

\* handleTempoMove: the rate for a slider position normalized / NormScale in [0, 1]
TempoRate(normalized) ==
    (RateScale + PITCH_RANGE) - (normalized * (PITCH_RANGE * 2)) \div NormScale

----------------------------------------------------------------------------
(* Loading *)

\* loadFile up to its first await
loadFileBegin(w, file) ==
    [w EXCEPT !.st.fileName = file,
              !.st.isPlaying = FALSE,
              !.ss.isScratching = FALSE,
              !.refs.source = NullSource]

\* loadFile after the decode, without the reset of the cue points
loadFileDecodedKeepingCues(w, decodedBuffer) ==
    [w EXCEPT !.st.buffer = decodedBuffer,
              !.st.duration = Duration(decodedBuffer),
              !.refs.pausedAt = 0,
              !.st.currentTime = 0,
              !.st.playbackRate = RateScale,
              !.st.bpm = 0]

\* loadFile after decodeAudioData has resolved with decodedBuffer
loadFileDecoded(w, decodedBuffer) ==
    [w EXCEPT !.st.buffer = decodedBuffer,
              !.st.duration = Duration(decodedBuffer),
              !.refs.pausedAt = 0,
              !.st.currentTime = 0,
              !.st.playbackRate = RateScale,
              !.st.cuePoints = <<>>,
              !.st.bpm = 0]

\* The value the completion of analyzeBPM(buffer) hands to setBpm
analyzeBPMResult(b) == IF DetectedBpm(b) > 0 THEN DetectedBpm(b) ELSE 0

----------------------------------------------------------------------------
(* BPM estimator: analyzeBPM.  Sample rates are in Hz and indices count samples, as *)
(* in the source.  A sample array is kept as its length and its samples other than *)
(* 0; a sample is an integer amplitude.                                            *)

ClipDuration == 10          \* clipDuration, in s
ScanSeconds == 2            \* scanStep = sampleRate * 2
EnergyStride == 100         \* every 100th sample of a window
TargetRate == 6000          \* targetRate, in Hz
MinBPM == 70                \* minBPM
MaxBPM == 160               \* maxBPM
Minute == 60                \* seconds per minute
Tenth == 10                 \* Math.round(x * 10) / 10

DecimateChunk == 16384      \* iterations of the decimation loop taken in one step
LagChunk == 8               \* lags of the autocorrelation search taken in one step
MaxEnvelope == 65536        \* elements the array downsampled can hold

NoSamples == [i \in {} |-> 0]

EmptyArray == [length |-> 0, at |-> NoSamples]

\* windowSize
WindowSize(buffer) == buffer.sampleRate * ClipDuration

\* rawData.length
RawLength(buffer) == buffer.sampleRate * buffer.duration

\* scanStep
ScanStep(buffer) == buffer.sampleRate * ScanSeconds

\* step = Math.floor(sampleRate / targetRate)
DecimationStep(buffer) == buffer.sampleRate \div TargetRate

\* The number of j = 0, 100, 200, ... with from <= j < to
Sampled(from, to) ==
    (to + EnergyStride - 1) \div EnergyStride - (from + EnergyStride - 1) \div EnergyStride

\* The sum of rawData[i + j]^2 over j = 0, 100, ... < windowSize from stretch k of
\* the window on: rawData holds buffer.levels[n] throughout its n-th stretch of
\* scanStep samples, and i is a multiple of scanStep
RECURSIVE WindowEnergy(_, _, _)
WindowEnergy(buffer, i, k) ==
    IF k * ScanStep(buffer) >= WindowSize(buffer) THEN 0
    ELSE LET val == buffer.levels[(i \div ScanStep(buffer)) + k + 1]
         IN val * val * Sampled(k * ScanStep(buffer), (k + 1) * ScanStep(buffer))
                + WindowEnergy(buffer, i, k + 1)

\* The rendering of the band-pass filter over the selected segment: an impulse at
\* every onset of the track, none for a silent segment
Rendered(buffer) ==
    [length |-> WindowSize(buffer), at |-> [i \in buffer.onsets |-> -1]]

\* The iterations of the decimation loop taken in one step from index i
DecimateCount(filteredData, i, step) ==
    IF step = 0 THEN DecimateChunk
    ELSE Min(DecimateChunk, (filteredData.length - i + step - 1) \div step)

\* downsampled after n more iterations of downsampled.push(Math.abs(filteredData[i]))
\* with i += step
Pushed(downsampled, filteredData, i, step, n) ==
    LET from == downsampled.length
        new == IF step = 0
               THEN IF i \in DOMAIN filteredData.at THEN from..(from + n - 1) ELSE {}
               ELSE {from + (p - i) \div step :
                         p \in {q \in DOMAIN filteredData.at :
                                    q >= i /\ q < i + n * step /\ (q - i) % step = 0}}
    IN [length |-> from + n,
        at |-> [q \in (DOMAIN downsampled.at) \cup new |->
                    IF q \in DOMAIN downsampled.at THEN downsampled.at[q]
                    ELSE Abs(filteredData.at[i + (q - from) * step])]]

\* A search range that starts at the lag of 100 BPM
MinLagAbove(buffer) ==
    (buffer.sampleRate * Minute) \div (DecimationStep(buffer) * 100)

\* minLag = Math.floor(effectiveRate * (60 / maxBPM)), effectiveRate = sampleRate / step
MinLag(buffer) ==
    (buffer.sampleRate * Minute) \div (DecimationStep(buffer) * MaxBPM)

\* maxLag = Math.floor(effectiveRate * (60 / minBPM))
MaxLag(buffer) ==
    (buffer.sampleRate * Minute) \div (DecimationStep(buffer) * MinBPM)

\* The sum of downsampled[p] * downsampled[p + lag] over the indices p of S
RECURSIVE SumProducts(_, _, _)
SumProducts(downsampled, lag, S) ==
    IF S = {} THEN 0
    ELSE LET p == CHOOSE q \in S : TRUE
         IN downsampled.at[p] * downsampled.at[p + lag]
                + SumProducts(downsampled, lag, S \ {p})

\* correlation: the sum of downsampled[i] * downsampled[i + lag] over i < limit; the
\* terms with a factor 0 add nothing
Correlation(downsampled, lag) ==
    LET limit == Min(downsampled.length - lag, downsampled.length)
    IN SumProducts(downsampled, lag,
                   {p \in DOMAIN downsampled.at :
                        p < limit /\ (p + lag) \in DOMAIN downsampled.at})

\* The autocorrelation loop with >= in place of >: the last maximum is kept
RECURSIVE SearchLagsKeepingLast(_, _, _, _)
SearchLagsKeepingLast(downsampled, lag, last, best) ==
    IF lag > last THEN best
    ELSE LET correlation == Correlation(downsampled, lag)
         IN SearchLagsKeepingLast(downsampled, lag + 1, last,
                                  IF correlation >= best.maxCorrelation
                                  THEN [maxCorrelation |-> correlation, bestLag |-> lag]
                                  ELSE best)

\* The autocorrelation loop from lag to last, starting from the best lag so far
RECURSIVE SearchLags(_, _, _, _)
SearchLags(downsampled, lag, last, best) ==
    IF lag > last THEN best
    ELSE LET correlation == Correlation(downsampled, lag)
         IN SearchLags(downsampled, lag + 1, last,
                       IF correlation > best.maxCorrelation
                       THEN [maxCorrelation |-> correlation, bestLag |-> lag]
                       ELSE best)

\* calculatedBpm = Math.round(60 * effectiveRate / bestLag * 10) / 10, as a fraction
CalculatedBpm(buffer, bestLag) ==
    LET divisor == DecimationStep(buffer) * bestLag
    IN [num |-> (2 * Minute * Tenth * buffer.sampleRate + divisor) \div (2 * divisor),
        den |-> Tenth]

\* Math.round(num / den)
Rounded(bpm) == (2 * bpm.num + bpm.den) \div (2 * bpm.den)

\* The call analyzeBPM(buffer), before its first statement
Call(buffer) ==
    [pc |-> "called", buffer |-> buffer, i |-> 0, maxEnergy |-> 0, bestOffset |-> 0,
     filteredData |-> EmptyArray, downsampled |-> EmptyArray,
     lag |-> 0, maxCorrelation |-> 0, bestLag |-> 0,
     calculatedBpm |-> [num |-> 0, den |-> Tenth], caught |-> FALSE, result |-> 0]

\* return value from inside analyzeBPM
Return(e, value) == [e EXCEPT !.pc = "returned", !.result = value]

\* analyzeBPM without the check of the duration
analyzeEnterUnchecked(e) ==
    [e EXCEPT !.pc = "scan", !.i = 0, !.maxEnergy = 0, !.bestOffset = 0]

\* The head of analyzeBPM: the check of the duration
analyzeEnter(e) ==
    IF e.buffer.duration < ClipDuration THEN Return(e, 0)
    ELSE [e EXCEPT !.pc = "scan", !.i = 0, !.maxEnergy = 0, !.bestOffset = 0]

\* One iteration of the scan for the loudest window, or the end of the loop
scanWindow(e) ==
    IF e.i < RawLength(e.buffer) - WindowSize(e.buffer)
    THEN LET sum == WindowEnergy(e.buffer, e.i, 0)
             e1 == IF sum > e.maxEnergy
                   THEN [e EXCEPT !.maxEnergy = sum, !.bestOffset = e.i]
                   ELSE e
         IN [e1 EXCEPT !.i = @ + ScanStep(e.buffer)]
    ELSE [e EXCEPT !.pc = "render"]

\* The catch block: an exception thrown in the pipeline becomes the result 0
caughtError(e) == [Return(e, 0) EXCEPT !.caught = TRUE]

\* await offlineCtx.startRendering() has resolved
rendered(e) ==
    [e EXCEPT !.pc = "decimate", !.filteredData = Rendered(e.buffer), !.i = 0,
              !.downsampled = EmptyArray]

\* A run of iterations of the decimation loop, or the end of the loop; the page is
\* lost when downsampled outgrows the memory
decimateBlock(e) ==
    LET step == DecimationStep(e.buffer)
    IN IF e.i < e.filteredData.length
       THEN LET n == DecimateCount(e.filteredData, e.i, step)
            IN IF e.downsampled.length + n > MaxEnvelope
               THEN [e EXCEPT !.pc = "aborted"]
               ELSE [e EXCEPT !.downsampled = Pushed(@, e.filteredData, e.i, step, n),
                              !.i = @ + n * step]
       ELSE [e EXCEPT !.pc = "correlate", !.lag = MinLag(e.buffer),
                      !.maxCorrelation = 0, !.bestLag = 0]

\* A run of iterations of the autocorrelation loop, or the end of the loop
correlateBlock(e) ==
    IF e.lag <= MaxLag(e.buffer)
    THEN LET last == Min(e.lag + LagChunk - 1, MaxLag(e.buffer))
             best == SearchLags(e.downsampled, e.lag, last,
                                [maxCorrelation |-> e.maxCorrelation,
                                 bestLag |-> e.bestLag])
         IN [e EXCEPT !.maxCorrelation = best.maxCorrelation,
                      !.bestLag = best.bestLag,
                      !.lag = last + 1]
    ELSE [e EXCEPT !.pc = "convert"]

\* The conversion of the best lag to a tempo
convert(e) ==
    IF e.bestLag = 0 THEN Return(e, 0)
    ELSE [e EXCEPT !.pc = "double", !.calculatedBpm = CalculatedBpm(e.buffer, e.bestLag)]

\* The end of analyzeBPM without the loop that halves
foldStepNoHalving(e) ==
    IF e.pc = "double"
    THEN IF e.calculatedBpm.num < MinBPM * e.calculatedBpm.den
         THEN [e EXCEPT !.calculatedBpm.num = @ * 2]
         ELSE [e EXCEPT !.pc = "halve"]
    ELSE Return(e, Rounded(e.calculatedBpm))

\* One iteration of the two loops that fold calculatedBpm into [70, 160], or the
\* return of the rounded tempo
foldStep(e) ==
    IF e.pc = "double"
    THEN IF e.calculatedBpm.num < MinBPM * e.calculatedBpm.den
         THEN [e EXCEPT !.calculatedBpm.num = @ * 2]
         ELSE [e EXCEPT !.pc = "halve"]
    ELSE IF e.calculatedBpm.num > MaxBPM * e.calculatedBpm.den
         THEN [e EXCEPT !.calculatedBpm.den = @ * 2]
         ELSE Return(e, Rounded(e.calculatedBpm))

----------------------------------------------------------------------------
(* Numbers of the tempo display.  bpm and playbackRate are IEEE doubles, and the   *)
(* display divides, multiplies and rounds them.  A double x > 0 is kept as         *)
(* [sig, exp] with x = sig * 2^exp, where sig is the 53-bit significand followed   *)
(* by three 0 bits, as four limbs of 14 bits, the least significant first; 0 is    *)
(* [sig |-> <<>>, exp |-> 0].  A natural number is a sequence of limbs.            *)

SigBits == 53
LimbBits == 14
SigLimbs == 4

RECURSIVE Pow2(_)
Pow2(n) == IF n = 0 THEN 1 ELSE 2 * Pow2(n - 1)

Base == Pow2(LimbBits)

Limb(a, i) == IF i \in 1..Len(a) THEN a[i] ELSE 0

\* a without its leading limbs 0
RECURSIVE Trim(_)
Trim(a) ==
    IF a # <<>> /\ a[Len(a)] = 0 THEN Trim(SubSeq(a, 1, Len(a) - 1)) ELSE a

\* The limbs of the number whose columns, least significant first, sum to cols
RECURSIVE Propagate(_, _, _)
Propagate(cols, i, carry) ==
    IF i > Len(cols)
    THEN IF carry = 0 THEN <<>>
         ELSE <<carry % Base>> \o Propagate(cols, i, carry \div Base)
    ELSE <<(cols[i] + carry) % Base>>
             \o Propagate(cols, i + 1, (cols[i] + carry) \div Base)

BigAdd(a, b) ==
    Trim(Propagate([k \in 1..Max(Len(a), Len(b)) |-> Limb(a, k) + Limb(b, k)], 1, 0))

\* a[i] * b[k + 1 - i] summed over i = from..k
RECURSIVE ColumnSum(_, _, _, _)
ColumnSum(a, b, k, from) ==
    IF from > k THEN 0
    ELSE Limb(a, from) * Limb(b, k + 1 - from) + ColumnSum(a, b, k, from + 1)

BigMul(a, b) ==
    Trim(Propagate([k \in 1..(Len(a) + Len(b)) |-> ColumnSum(a, b, k, 1)], 1, 0))

\* a < b, for a and b without leading limbs 0
BigLess(a, b) ==
    \/ Len(a) < Len(b)
    \/ /\ Len(a) = Len(b)
       /\ \E i \in 1..Len(a) :
              /\ a[i] < b[i]
              /\ \A j \in (i + 1)..Len(a) : a[j] = b[j]

RECURSIVE Borrow(_, _, _, _)
Borrow(a, b, i, borrow) ==
    IF i > Len(a) THEN <<>>
    ELSE <<(a[i] - Limb(b, i) - borrow + Base) % Base>>
             \o Borrow(a, b, i + 1, IF a[i] - Limb(b, i) - borrow < 0 THEN 1 ELSE 0)

\* a - b, for a >= b
BigSub(a, b) == Trim(Borrow(a, b, 1, 0))

\* 2^k
Pow2Big(k) ==
    [i \in 1..(k \div LimbBits + 1) |->
        IF i = k \div LimbBits + 1 THEN Pow2(k % LimbBits) ELSE 0]

ShiftLeft(a, k) == BigMul(a, Pow2Big(k))

\* a \div 2^k, and whether a bit other than 0 was shifted out
ShiftRight(a, k) ==
    LET w == k \div LimbBits
        s == k % LimbBits
        high == SubSeq(a, w + 1, Len(a))
    IN [quot |-> Trim([i \in 1..Len(high) |->
                          high[i] \div Pow2(s)
                              + (Limb(high, i + 1) % Pow2(s)) * Pow2(LimbBits - s)]),
        inexact |-> \/ \E i \in 1..Min(w, Len(a)) : a[i] # 0
                    \/ (high # <<>> /\ high[1] % Pow2(s) # 0)]

\* The number of bits of a > 0
BitLength(a) ==
    LimbBits * (Len(a) - 1)
        + (CHOOSE n \in 1..LimbBits : Pow2(n - 1) <= a[Len(a)] /\ a[Len(a)] < Pow2(n))

RECURSIVE ToInt(_)
ToInt(a) == IF a = <<>> THEN 0 ELSE a[1] + Base * ToInt(Tail(a))

\* cur \div d for cur < d * Base and a d whose top limb has its top bit set: the
\* quotient of the top limbs is at most 2 above it
QuotientDigit(cur, d) ==
    LET n == Len(d)
        estimate == Min(Base - 1, (Limb(cur, n + 1) * Base + Limb(cur, n)) \div d[n])
    IN CHOOSE q \in Max(0, estimate - 2)..estimate :
           /\ ~BigLess(cur, BigMul(d, <<q>>))
           /\ BigLess(cur, BigMul(d, <<q + 1>>))

\* Long division of the limbs i, ..., 1 of a by d, with rem carried in from above
RECURSIVE LongDivide(_, _, _, _)
LongDivide(a, d, i, rem) ==
    IF i = 0 THEN [quot |-> <<>>, rem |-> rem]
    ELSE LET cur == Trim(<<a[i]>> \o rem)
             q == QuotientDigit(cur, d)
             rest == LongDivide(a, d, i - 1, BigSub(cur, BigMul(d, <<q>>)))
         IN [quot |-> rest.quot \o <<q>>, rem |-> rest.rem]

\* The double nearest to a * 2^exp (ties to the even significand), for a number a
\* of more than 53 bits; inexact tells that a was cut off below its last bit
RoundToDouble(a, exp, inexact) ==
    LET n == BitLength(a) - SigBits
        t == ShiftRight(a, n - 1)
        sig == ShiftRight(t.quot, 1).quot
        up == /\ t.quot[1] % 2 = 1
              /\ (inexact \/ t.inexact \/ sig[1] % 2 = 1)
        sig1 == IF up THEN BigAdd(sig, <<1>>) ELSE sig
        carried == BitLength(sig1) > SigBits
    IN [sig |-> ShiftLeft(IF carried THEN ShiftRight(sig1, 1).quot ELSE sig1,
                          LimbBits * SigLimbs - SigBits),
        exp |-> exp + n - (LimbBits * SigLimbs - SigBits) + (IF carried THEN 1 ELSE 0)]

FZero == [sig |-> <<>>, exp |-> 0]

\* The double of an integer 0 <= n < 2^31
FromInt(n) ==
    IF n = 0 THEN FZero
    ELSE LET a == Propagate(<<n>>, 1, 0)
         IN [sig |-> ShiftLeft(a, LimbBits * SigLimbs - BitLength(a)),
             exp |-> BitLength(a) - LimbBits * SigLimbs]

\* x * y
FMul(x, y) ==
    CHOOSE z \in {IF a = FZero \/ b = FZero THEN FZero
                  ELSE RoundToDouble(BigMul(a.sig, b.sig), a.exp + b.exp, FALSE) :
                      a \in {x}, b \in {y}} : TRUE

\* The quotient of the significands of x and y, SigLimbs limbs below the point
SigQuotient(x, y) ==
    LongDivide([i \in 1..SigLimbs |-> 0] \o x.sig, y.sig, 2 * SigLimbs, <<>>)

\* The double nearest to x / y, for x > 0 and y > 0
Quotient(x, y) ==
    CHOOSE z \in {RoundToDouble(Trim(r.quot), x.exp - y.exp - LimbBits * SigLimbs,
                                r.rem # <<>>) : r \in {SigQuotient(x, y)}} : TRUE

\* x / y, for y > 0
FDiv(x, y) ==
    CHOOSE z \in {IF a = FZero THEN FZero ELSE Quotient(a, b) : a \in {x}, b \in {y}} : TRUE

\* Math.round(x) = floor(x + 1/2), for 1 <= x < 2^31
MathRound(x) ==
    CHOOSE n \in {ToInt(ShiftRight(BigAdd(a.sig, Pow2Big(-a.exp - 1)), -a.exp).quot) :
                      a \in {x}} : TRUE

\* x is half way between two integers, for x >= 1
HalfInteger(x) ==
    LET t == ShiftRight(x.sig, -x.exp - 1)
    IN ~t.inexact /\ t.quot[1] % 2 = 1

----------------------------------------------------------------------------
(* Tempo display and tap tempo (Deck).  Where taps are followed, bpm holds a double *)
(* as above; playbackRate stays in units of 1 / RateScale.                          *)

TapDebounce == 100          \* ms
TapReset == 2000            \* ms
MaxTaps == 5
MsPerMinute == 60000

Unknown == "--"

\* The double of playbackRate: the one nearest to playbackRate / RateScale, which is
\* what handleTempoMove computes at the ends and the middle of the slider
RateValue(playbackRate) == FDiv(FromInt(playbackRate), FromInt(RateScale))

\* effectiveBpm
EffectiveBpm(st) ==
    IF st.bpm # FZero THEN FMul(st.bpm, RateValue(st.playbackRate)) ELSE FZero

\* The text of the BPM display
Displayed(st) ==
    IF EffectiveBpm(st) # FZero THEN MathRound(EffectiveBpm(st)) ELSE Unknown

RECURSIVE SumGaps(_)
SumGaps(gaps) == IF gaps = <<>> THEN 0 ELSE Head(gaps) + SumGaps(Tail(gaps))

\* measuredBpm = 60000 / avg, avg = sum / (times.length - 1)
MeasuredBpm(times) ==
    FDiv(FromInt(MsPerMinute), FDiv(FromInt(SumGaps(times.gaps)), FromInt(times.count - 1)))

\* The array of tap times after a tap gap ms after the last one
TapTimesAfter(times, gap) ==
    LET kept == IF times.count > 0 /\ gap > TapReset THEN NoTaps ELSE times
        pushed == IF kept.count = 0 THEN [count |-> 1, gaps |-> <<>>]
                  ELSE [count |-> kept.count + 1, gaps |-> Append(kept.gaps, gap)]
    IN IF pushed.count > MaxTaps
       THEN [count |-> MaxTaps, gaps |-> Tail(pushed.gaps)]
       ELSE pushed

\* handleTap which stores the measured tempo as it is
handleTapUnscaled(cl, w, times, gap) ==
    IF times.count > 0 /\ gap < TapDebounce THEN [w |-> w, times |-> times]
    ELSE LET after == TapTimesAfter(times, gap)
         IN [times |-> after,
             w |-> IF after.count > 1
                   THEN [w EXCEPT !.st.bpm = MeasuredBpm(after)]
                   ELSE w]

\* handleTap, gap ms after the last recorded tap
handleTap(cl, w, times, gap) ==
    IF times.count > 0 /\ gap < TapDebounce THEN [w |-> w, times |-> times]
    ELSE LET after == TapTimesAfter(times, gap)
         IN [times |-> after,
             w |-> IF after.count > 1
                   THEN [w EXCEPT !.st.bpm =
                            FDiv(MeasuredBpm(after), RateValue(cl.playbackRate))]
                   ELSE w]

----------------------------------------------------------------------------
(* Inputs *)

SeekTimes == {-10, 30, 90}
Angles == {-150, 0, 150}
SliderPositions == {0, 1}
TapBpms == {128}

\* Pointer positions of a slider move, in units of 1 / NormScale of the height of
\* the rail below its top: above the rail, on it, and below it
PointerYs == {-1, 0, 1, 2, 14}

\* The audio analyzeBPM is called with: a track of the given duration in s whose
\* band-passed segment has an impulse on every beat of tempo (none for 0); the
\* track is silent for tempo 0 and else twice as loud in its last two stretches
\* if late
Audio(sampleRate, duration, tempo, late) ==
    [sampleRate |-> sampleRate, duration |-> duration,
     onsets |-> IF tempo = 0 THEN {}
                ELSE LET period == (sampleRate * Minute) \div tempo
                     IN {k * period : k \in 1..((sampleRate * ClipDuration - 1) \div period)},
     levels |-> [n \in 1..(duration \div ScanSeconds) |->
                    IF tempo = 0 THEN 0
                    ELSE IF late /\ n > duration \div ScanSeconds - 2 THEN 2
                    ELSE 1]]

\* A track given by the level of each of its stretches of 2 s and by the onsets of
\* its band-passed segment, counted in samples of the envelope
Recording(sampleRate, levels, beats) ==
    [sampleRate |-> sampleRate, duration |-> Len(levels) * ScanSeconds,
     onsets |-> {q * (sampleRate \div TargetRate) : q \in beats},
     levels |-> levels]

SearchRates == {44100, 48000}

\* Tracks of 16 s: even, silent, loudest at the start, with two equally loud windows
\* after a quieter one, and loudest at the end
LevelShapes == {<<1, 1, 1, 1, 1, 1, 1, 1>>, <<0, 0, 0, 0, 0, 0, 0, 0>>,
                <<2, 1, 1, 1, 1, 1, 1, 1>>, <<1, 1, 1, 1, 1, 2, 1, 1>>,
                <<1, 1, 1, 1, 1, 1, 2, 2>>}

\* Onsets of the segment: none; one; three whose gaps of 2400 and 3000 samples
\* each occur once; five in which 2500 occurs once and 3000 and 5000 twice
BeatShapes == {{}, {6000}, {6000, 9000, 11400},
               {6000, 9000, 11000, 14000, 16500}}

AnalysisRates == {4000, 44100, 48000}
TrackSeconds == {8, 14}
Tempos == {0, 120, 240}
ConvertRates == {11025, 44100, 48000, 50000}

\* The time in ms from the last recorded tap to the next
TapGaps == {50, 320, 500, 2500}

----------------------------------------------------------------------------
(* Actions: one per command, callback or step of the environment *)

\* The render after a handler: state is committed and the effects run
Commit(w) ==
    LET w1 == IF w.st.playbackRate # state.playbackRate THEN playbackRateEffect(w) ELSE w
    IN /\ state' = w1.st
       /\ refs' = w1.refs
       /\ scratchState' = w1.ss
       /\ connected' = w1.conn

LoadFile ==
    \E file \in Files \ decoding :
        /\ Commit(loadFileBegin(World, file))
        /\ decoding' = decoding \cup {file}
        /\ UNCHANGED <<now, analyses, estimator, tapTimes, frame, playingBefore, cueTimer, cuePresses>>

\* decodeAudioData resolves: the rest of loadFile runs and starts the analysis
DecodeResolve(file) ==
    /\ file \in decoding
    /\ decoding' = decoding \ {file}
    /\ Commit(loadFileDecoded(World, file))
    /\ analyses' = analyses \cup {file}
    /\ UNCHANGED <<now, estimator, tapTimes, frame, playingBefore, cueTimer, cuePresses>>

\* decodeAudioData rejects: the catch block reports the error
DecodeReject(file) ==
    /\ file \in decoding
    /\ decoding' = decoding \ {file}
    /\ UNCHANGED <<state, refs, scratchState, connected, analyses, now, estimator, tapTimes, frame, playingBefore, cueTimer, cuePresses>>

DecodeDone == \E file \in Files : DecodeResolve(file) \/ DecodeReject(file)

\* A loadFile whose decode rejects at once, taken as one step
FailedLoad(file) ==
    /\ file \notin decoding
    /\ Commit(loadFileBegin(World, file))
    /\ UNCHANGED <<now, decoding, analyses, estimator, tapTimes, frame, playingBefore, cueTimer, cuePresses>>

LoadFails == \E file \in Files : FailedLoad(file)

\* The promise of analyzeBPM(b) resolves and its then-callback runs
AnalysisResolve(b) ==
    /\ b \in analyses
    /\ analyses' = analyses \ {b}
    /\ Commit([World EXCEPT !.st.bpm = analyzeBPMResult(b)])
    /\ UNCHANGED <<now, decoding, estimator, tapTimes, frame, playingBefore, cueTimer, cuePresses>>

AnalysisDone == \E b \in Buffers : AnalysisResolve(b)

Play ==
    /\ Commit(handlePlay(state, World))
    /\ UNCHANGED <<now, decoding, analyses, estimator, tapTimes, frame, playingBefore, cueTimer, cuePresses>>

Pause ==
    /\ Commit(handlePause(state, World))
    /\ UNCHANGED <<now, decoding, analyses, estimator, tapTimes, frame, playingBefore, cueTimer, cuePresses>>

\* play(), the render that follows it, then pause() once the clock has advanced
\* by elapsed ticks, with no other command or poll in between
PlayPause(elapsed) ==
    LET w1 == handlePlay(state, World)
        w2 == [w1 EXCEPT !.now = @ + elapsed]
    IN /\ now + elapsed <= MaxClock
       /\ now' = now + elapsed
       /\ Commit(handlePause(w1.st, w2))
       /\ UNCHANGED <<decoding, analyses, estimator, tapTimes, frame, playingBefore, cueTimer, cuePresses>>

PlayThenPause == \E elapsed \in 0..MaxClock : PlayPause(elapsed)

SeekTo(time) ==
    /\ Commit(seek(state, World, time))
    /\ UNCHANGED <<now, decoding, analyses, estimator, tapTimes, frame, playingBefore, cueTimer, cuePresses>>

Seek == \E time \in SeekTimes : SeekTo(time)

StartScratch ==
    /\ NumProcs(connected) < MaxProcs
    /\ Commit(startScratch(state, World))
    /\ UNCHANGED <<now, decoding, analyses, estimator, tapTimes, frame, playingBefore, cueTimer, cuePresses>>

\* A press on the platter: handleLpDown calls startScratch() on a deck with a
\* buffer, also while the platter is already held by another finger or button; the
\* press that begins a scratch is the one that finds the deck not scratching
HandleLpDown ==
    /\ state.buffer # NoBuffer
    /\ NumProcs(connected) <= MaxHeld
    /\ Commit(startScratch(state, World))
    /\ playingBefore' = IF scratchState.isScratching THEN playingBefore
                        ELSE state.isPlaying
    /\ UNCHANGED <<now, decoding, analyses, estimator, tapTimes, frame, cueTimer, cuePresses>>

\* A pointer move of the platter: handleLpMove calls seek(currentTime + timeDelta)
HandleLpMove(lastAngle, currentAngle) ==
    /\ state.buffer # NoBuffer
    /\ Commit(seek(state, World, state.currentTime + TimeDelta(lastAngle, currentAngle)))
    /\ UNCHANGED <<now, decoding, analyses, estimator, tapTimes, frame, playingBefore, cueTimer, cuePresses>>

GestureUpdate ==
    \E lastAngle \in Angles, currentAngle \in Angles : HandleLpMove(lastAngle, currentAngle)

StopScratch ==
    /\ Commit(stopScratch(state, World))
    /\ UNCHANGED <<now, decoding, analyses, estimator, tapTimes, frame, playingBefore, cueTimer, cuePresses>>

AddCuePoint ==
    /\ Commit(addCuePoint(state, World))
    /\ UNCHANGED <<now, decoding, analyses, estimator, tapTimes, frame, playingBefore, cueTimer, cuePresses>>

\* addCuePoint(), the render that follows it, then addCuePoint() again at the same
\* position
AddCuePointTwice ==
    LET w1 == addCuePoint(state, World)
    IN /\ Commit(addCuePoint(w1.st, w1))
       /\ UNCHANGED <<now, decoding, analyses, estimator, tapTimes, frame, playingBefore, cueTimer, cuePresses>>

RemoveCuePoint ==
    /\ Commit(removeCuePoint(state, World))
    /\ UNCHANGED <<now, decoding, analyses, estimator, tapTimes, frame, playingBefore, cueTimer, cuePresses>>

JumpToNextCue ==
    /\ Commit(jumpToNextCue(state, World))
    /\ UNCHANGED <<now, decoding, analyses, estimator, tapTimes, frame, playingBefore, cueTimer, cuePresses>>

\* isNearCue as the callback of the CUE timer computes it from a render's controls
IsNearCue(cl) ==
    \E i \in 1..Len(cl.cuePoints) : Abs(cl.cuePoints[i] - cl.currentTime) < CueTolerance

\* The callback of the CUE timer reading the deck as it is when it runs
HeldCueLive(cl, w) ==
    IF ~w.st.isPlaying /\ IsNearCue(w.st)
    THEN [w |-> removeCuePoint(w.st, w), did |-> "remove"]
    ELSE [w |-> addCuePoint(w.st, w), did |-> "add"]

\* The callback of the CUE timer: it reads controls of the render in which the
\* button was pressed, and calls that render's removeCuePoint or addCuePoint
HeldCue(cl, w) ==
    IF ~cl.isPlaying /\ IsNearCue(cl)
    THEN [w |-> removeCuePoint(cl, w), did |-> "remove"]
    ELSE [w |-> addCuePoint(cl, w), did |-> "add"]

\* A press of the CUE button, also while it is held by another finger or button:
\* handleCueDown clears a pending timer and sets one of 500 ms
HandleCueDown ==
    /\ cuePresses.presses < MaxPresses
    /\ cueTimer' = [armed |-> TRUE, controls |-> state]
    /\ cuePresses' = [cuePresses EXCEPT !.down = TRUE, !.presses = @ + 1]
    /\ UNCHANGED <<state, refs, scratchState, connected, now, decoding, analyses,
                   estimator, tapTimes, frame, playingBefore>>

\* The 500 ms have passed with the timer still pending
CueTimerFires ==
    /\ cueTimer.armed
    /\ LET held == HeldCue(cueTimer.controls, World)
       IN /\ Commit(held.w)
          /\ cuePresses' = [cuePresses EXCEPT !.actions = @ + 1, !.last = held.did]
    /\ cueTimer' = NoTimer
    /\ UNCHANGED <<now, decoding, analyses, estimator, tapTimes, frame, playingBefore>>

\* The button is released or the pointer leaves it: handleCueUp jumps if the timer
\* is still pending
HandleCueUp ==
    /\ IF cueTimer.armed
       THEN /\ Commit(jumpToNextCue(state, World))
            /\ cuePresses' = [cuePresses EXCEPT !.down = FALSE, !.actions = @ + 1,
                                                !.last = "jump"]
       ELSE /\ UNCHANGED <<state, refs, scratchState, connected>>
            /\ cuePresses' = [cuePresses EXCEPT !.down = FALSE]
    /\ cueTimer' = NoTimer
    /\ UNCHANGED <<now, decoding, analyses, estimator, tapTimes, frame, playingBefore>>

\* setPlaybackRate(value)
SetRate(value) ==
    /\ Commit([World EXCEPT !.st.playbackRate = value])
    /\ UNCHANGED <<now, decoding, analyses, estimator, tapTimes, frame, playingBefore, cueTimer, cuePresses>>

SetPlaybackRate == \E normalized \in SliderPositions : SetRate(TempoRate(normalized))

\* A move of the pointer that drags the tempo slider
HandleTempoMove ==
    \E relativeY \in PointerYs : SetRate(TempoRate(Normalized(relativeY)))

\* A double click on the tempo slider
HandlePitchReset == SetRate(RateScale)

SetBpm ==
    \E value \in TapBpms :
        /\ Commit([World EXCEPT !.st.bpm = value])
        /\ UNCHANGED <<now, decoding, analyses, estimator, tapTimes, frame, playingBefore, cueTimer, cuePresses>>

\* A run of the polling loop
Poll ==
    /\ Commit(update(state, World))
    /\ UNCHANGED <<now, decoding, analyses, estimator, tapTimes, frame, playingBefore, cueTimer, cuePresses>>

\* One onaudioprocess block of every connected processor
RenderBlock ==
    /\ NumProcs(connected) > 0
    /\ scratchState' = [scratchState EXCEPT !.currentSample =
                            Damp(@, scratchState.targetSample, BlockFrames)]
    /\ UNCHANGED <<state, refs, connected, now, decoding, analyses, estimator, tapTimes, frame, playingBefore, cueTimer, cuePresses>>

\* The audio thread calls onaudioprocess of a connected processor with an output
\* block of BlockFrames frames
BlockBegins ==
    /\ frame = 0
    /\ playingBefore = FALSE
    /\ cueTimer = NoTimer
    /\ cuePresses = NoPresses
    /\ NumProcs(connected) > 0
    /\ frame' = BlockFrames
    /\ UNCHANGED <<state, refs, scratchState, connected, now, decoding, analyses,
                   estimator, tapTimes, playingBefore, cueTimer, cuePresses>>

\* One pass of the loop over the output frames; a frame that leaves the position
\* where it was, or puts it on the target, is repeated by every further frame of the
\* block
RenderFrame ==
    /\ frame > 0
    /\ \E next \in FrameOutcomes(scratchState.currentSample, scratchState.targetSample) :
           /\ scratchState' = [scratchState EXCEPT !.currentSample = next]
           /\ frame' = IF next \in {scratchState.currentSample, scratchState.targetSample}
                       THEN 0 ELSE frame - 1
    /\ UNCHANGED <<state, refs, connected, now, decoding, analyses, estimator, tapTimes,
                   playingBefore, cueTimer, cuePresses>>

\* The audio clock advances by one tick; a started source plays on at its rate
Tick ==
    /\ now < MaxClock
    /\ now' = now + 1
    /\ refs' = IF refs.source # NullSource
               THEN [refs EXCEPT !.source.pos =
                         Min(@ + (ClockUnit * refs.source.playbackRate) \div RateScale,
                             Duration(refs.source.buffer))]
               ELSE refs
    /\ UNCHANGED <<state, scratchState, connected, decoding, analyses, estimator, tapTimes, frame, playingBefore, cueTimer, cuePresses>>

\* A step of the call of analyzeBPM that is followed
EstimatorStep(next) ==
    /\ estimator' = next
    /\ UNCHANGED <<state, refs, scratchState, connected, now, decoding, analyses, tapTimes, frame, playingBefore, cueTimer, cuePresses>>

AnalyzeEnter ==
    /\ estimator.pc = "called"
    /\ EstimatorStep(analyzeEnter(estimator))

ScanWindow ==
    /\ estimator.pc = "scan"
    /\ EstimatorStep(scanWindow(estimator))

\* The offline rendering ends: it resolves, or it fails and the catch block runs
Render ==
    /\ estimator.pc = "render"
    /\ \/ EstimatorStep(rendered(estimator))
       \/ EstimatorStep(caughtError(estimator))

\* Running out of memory in the loop ends the page, or is thrown and caught
DecimateBlock ==
    /\ estimator.pc = "decimate"
    /\ LET next == decimateBlock(estimator)
       IN \/ EstimatorStep(next)
          \/ (next.pc = "aborted" /\ EstimatorStep(caughtError(estimator)))

CorrelateBlock ==
    /\ estimator.pc = "correlate"
    /\ EstimatorStep(correlateBlock(estimator))

Convert ==
    /\ estimator.pc = "convert"
    /\ EstimatorStep(convert(estimator))

FoldStep ==
    /\ estimator.pc \in {"double", "halve"}
    /\ EstimatorStep(foldStep(estimator))

\* The promise of the followed call resolves and its then-callback runs
AnalysisSettles ==
    /\ estimator.pc = "returned"
    /\ estimator' = [estimator EXCEPT !.pc = "settled"]
    /\ analyses' = analyses \ {state.buffer}
    /\ Commit([World EXCEPT !.st.bpm =
                   IF estimator.result > 0 THEN estimator.result ELSE 0])
    /\ UNCHANGED <<now, decoding, tapTimes, frame, playingBefore, cueTimer, cuePresses>>


\* A tap on the BPM display
HandleTap ==
    \E gap \in TapGaps :
        LET tapped == handleTap(state, World, tapTimes, gap)
        IN /\ tapTimes' = tapped.times
           /\ Commit(tapped.w)
           /\ UNCHANGED <<now, decoding, analyses, estimator, frame, playingBefore, cueTimer, cuePresses>>

\* The deck in time: transport, scratch engine and loads against the audio clock
Next ==
    \/ LoadFile \/ DecodeDone
    \/ Play \/ Pause \/ Seek
    \/ StartScratch \/ GestureUpdate \/ StopScratch \/ RenderBlock
    \/ JumpToNextCue
    \/ SetPlaybackRate
    \/ Poll \/ Tick

Spec == Init /\ [][Next]_vars

\* The transport alone against the audio clock
TransportNext ==
    \/ LoadFile \/ DecodeDone
    \/ Play \/ Pause \/ PlayThenPause \/ Seek
    \/ SetPlaybackRate
    \/ Poll \/ Tick

TransportSpec == Init /\ [][TransportNext]_vars

\* The scratch engine beside the transport and the cue points, with the clock at rest
ScratchNext ==
    \/ LoadFile \/ DecodeDone
    \/ Play \/ Pause \/ Seek
    \/ StartScratch \/ GestureUpdate \/ StopScratch \/ RenderBlock
    \/ AddCuePoint \/ JumpToNextCue
    \/ Poll

ScratchSpec == Init /\ [][ScratchNext]_vars

\* A deck at rest on a loaded track, paused at its start or its end
DampInit ==
    \E b \in Buffers : \E p \in {0, Duration(b)} :
        /\ state = [isPlaying |-> FALSE, currentTime |-> p, buffer |-> b,
                    duration |-> Duration(b), cuePoints |-> <<>>, fileName |-> b,
                    bpm |-> analyzeBPMResult(b), playbackRate |-> RateScale]
        /\ refs = [source |-> NullSource, startTime |-> 0, pausedAt |-> p]
        /\ scratchState = [isScratching |-> FALSE, currentSample |-> 0, targetSample |-> 0,
                           wasPlayingBeforeScratch |-> FALSE, processor |-> NoBuffer]
        /\ connected = [procs |-> NoProcs, orphanSources |-> 0]
        /\ now = 0
        /\ decoding = {}
        /\ analyses = {}
        /\ estimator = NoCall
        /\ tapTimes = NoTaps
        /\ frame = 0
        /\ playingBefore = FALSE
        /\ cueTimer = NoTimer
        /\ cuePresses = NoPresses

\* The platter pressed, also repeatedly, turned and released beside the transport
\* and the loads, with the clock at rest
SessionNext ==
    \/ LoadFile \/ DecodeDone
    \/ Play \/ Pause \/ Seek
    \/ HandleLpDown \/ GestureUpdate \/ StopScratch \/ RenderBlock
    \/ JumpToNextCue
    \/ Poll

SessionSpec == Init /\ [][SessionNext]_vars

\* The commands a handler of the main thread runs: none runs while onaudioprocess
\* is rendering a block
BetweenBlocks ==
    /\ frame = 0
    /\ playingBefore = FALSE
    /\ cueTimer = NoTimer
    /\ cuePresses = NoPresses
    /\ \/ Seek \/ StartScratch \/ GestureUpdate \/ StopScratch
       \/ Poll

\* The scratch engine frame by frame on a paused deck
DampNext == BetweenBlocks \/ BlockBegins \/ RenderFrame

\* The audio thread keeps calling a connected processor and finishes each block
DampSpec == DampInit /\ [][DampNext]_vars /\ WF_vars(BlockBegins) /\ WF_vars(RenderFrame)

\* The cue points beside the transport, against the audio clock
CueNext ==
    \/ LoadFile \/ DecodeDone
    \/ Play \/ Pause \/ Seek
    \/ AddCuePoint \/ AddCuePointTwice \/ RemoveCuePoint \/ JumpToNextCue
    \/ SetPlaybackRate
    \/ Poll \/ Tick

CueSpec == Init /\ [][CueNext]_vars

\* The CUE button beside the transport and the loads, with the clock at rest
ButtonNext ==
    \/ LoadFile \/ DecodeDone
    \/ Play \/ Pause \/ Seek
    \/ HandleCueDown \/ CueTimerFires \/ HandleCueUp

ButtonSpec == Init /\ [][ButtonNext]_vars

\* The command surface with the clock at rest: loads, analyses, cues and tempo
LoadNext ==
    \/ LoadFile \/ DecodeDone \/ LoadFails \/ AnalysisDone
    \/ Play \/ Pause \/ Seek
    \/ AddCuePoint \/ RemoveCuePoint \/ JumpToNextCue
    \/ SetPlaybackRate \/ SetBpm

LoadSpec == Init /\ [][LoadNext]_vars

\* The tempo slider beside loads and the transport, against the audio clock
PitchNext ==
    \/ LoadFile \/ DecodeDone \/ LoadFails
    \/ Play \/ Pause \/ Seek
    \/ HandleTempoMove \/ HandlePitchReset
    \/ Poll \/ Tick

PitchSpec == Init /\ [][PitchNext]_vars

\* A deck that has just been started: play() at position p of a loaded buffer
LiveInit ==
    \E b \in Buffers : \E p \in 0..(Duration(b) - 1), normalized \in 0..NormScale :
        /\ state = [isPlaying |-> TRUE, currentTime |-> p, buffer |-> b,
                    duration |-> Duration(b), cuePoints |-> <<>>, fileName |-> b,
                    bpm |-> analyzeBPMResult(b), playbackRate |-> TempoRate(normalized)]
        /\ refs = [source |-> NewSource(b, p, TempoRate(normalized)),
                   startTime |-> 0, pausedAt |-> p]
        /\ scratchState = [isScratching |-> FALSE, currentSample |-> 0, targetSample |-> 0,
                           wasPlayingBeforeScratch |-> FALSE, processor |-> NoBuffer]
        /\ connected = [procs |-> NoProcs, orphanSources |-> 0]
        /\ now = 0
        /\ decoding = {}
        /\ analyses = {}
        /\ estimator = NoCall
        /\ tapTimes = NoTaps
        /\ frame = 0
        /\ playingBefore = FALSE
        /\ cueTimer = NoTimer
        /\ cuePresses = NoPresses

\* The audio clock of a deck whose source is attached: it runs on, and is followed
\* until the computed position has reached the end of the track
LiveTick ==
    /\ refs.source # NullSource
    /\ CalculatedTime(state, World) < state.duration
    /\ now' = now + 1
    /\ refs' = [refs EXCEPT !.source.pos =
                    Min(@ + (ClockUnit * refs.source.playbackRate) \div RateScale,
                        Duration(refs.source.buffer))]
    /\ UNCHANGED <<state, scratchState, connected, decoding, analyses, estimator, tapTimes, frame, playingBefore, cueTimer, cuePresses>>

LiveNext == LiveTick \/ Poll

\* Playback left alone: the clock runs and requestAnimationFrame keeps calling update
LiveSpec == LiveInit /\ [][LiveNext]_vars /\ WF_vars(LiveTick) /\ WF_vars(Poll)

\* A deck whose file has just been decoded, at the call of analyzeBPM on its audio
BpmInit ==
    \E sampleRate \in AnalysisRates, duration \in TrackSeconds,
       tempo \in Tempos, late \in BOOLEAN :
        /\ state = [isPlaying |-> FALSE, currentTime |-> 0, buffer |-> "a.mp3",
                    duration |-> Duration("a.mp3"), cuePoints |-> <<>>,
                    fileName |-> "a.mp3", bpm |-> 0, playbackRate |-> RateScale]
        /\ refs = [source |-> NullSource, startTime |-> 0, pausedAt |-> 0]
        /\ scratchState = [isScratching |-> FALSE, currentSample |-> 0, targetSample |-> 0,
                           wasPlayingBeforeScratch |-> FALSE, processor |-> NoBuffer]
        /\ connected = [procs |-> NoProcs, orphanSources |-> 0]
        /\ now = 0
        /\ decoding = {}
        /\ analyses = {"a.mp3"}
        /\ estimator = Call(Audio(sampleRate, duration, tempo, late))
        /\ tapTimes = NoTaps
        /\ frame = 0
        /\ playingBefore = FALSE
        /\ cueTimer = NoTimer
        /\ cuePresses = NoPresses

\* The steps of the followed call
AnalysisStep ==
    \/ AnalyzeEnter \/ ScanWindow \/ Render \/ DecimateBlock \/ CorrelateBlock
    \/ Convert \/ FoldStep \/ AnalysisSettles

\* Commands reach the deck only while analyzeBPM awaits the rendering: the rest of
\* it runs to completion on the thread of the handlers
BpmNext ==
    \/ AnalysisStep
    \/ (estimator.pc = "render" /\ (Play \/ AddCuePoint \/ SetPlaybackRate))

\* The analysis of a newly loaded track, which keeps running once it is called
BpmSpec == BpmInit /\ [][BpmNext]_vars /\ WF_vars(AnalysisStep)

\* analyzeBPM called with a track of uneven loudness and irregular onsets
SearchInit ==
    \E sampleRate \in SearchRates, levels \in LevelShapes, beats \in BeatShapes :
        /\ state = [isPlaying |-> FALSE, currentTime |-> 0, buffer |-> "a.mp3",
                    duration |-> Duration("a.mp3"), cuePoints |-> <<>>,
                    fileName |-> "a.mp3", bpm |-> 0, playbackRate |-> RateScale]
        /\ refs = [source |-> NullSource, startTime |-> 0, pausedAt |-> 0]
        /\ scratchState = [isScratching |-> FALSE, currentSample |-> 0, targetSample |-> 0,
                           wasPlayingBeforeScratch |-> FALSE, processor |-> NoBuffer]
        /\ connected = [procs |-> NoProcs, orphanSources |-> 0]
        /\ now = 0
        /\ decoding = {}
        /\ analyses = {"a.mp3"}
        /\ estimator = Call(Recording(sampleRate, levels, beats))
        /\ tapTimes = NoTaps
        /\ frame = 0
        /\ playingBefore = FALSE
        /\ cueTimer = NoTimer
        /\ cuePresses = NoPresses

\* The two searches of the estimator over such tracks
SearchSpec == SearchInit /\ [][AnalysisStep]_vars

\* analyzeBPM at the end of its autocorrelation loop, for any best lag of the range
ConvertInit ==
    \E sampleRate \in ConvertRates :
        \E bestLag \in MinLag(Audio(sampleRate, ClipDuration, 0, FALSE))
                           ..MaxLag(Audio(sampleRate, ClipDuration, 0, FALSE)) :
            /\ state = [isPlaying |-> FALSE, currentTime |-> 0, buffer |-> "a.mp3",
                        duration |-> Duration("a.mp3"), cuePoints |-> <<>>,
                        fileName |-> "a.mp3", bpm |-> 0, playbackRate |-> RateScale]
            /\ refs = [source |-> NullSource, startTime |-> 0, pausedAt |-> 0]
            /\ scratchState = [isScratching |-> FALSE, currentSample |-> 0,
                               targetSample |-> 0, wasPlayingBeforeScratch |-> FALSE,
                               processor |-> NoBuffer]
            /\ connected = [procs |-> NoProcs, orphanSources |-> 0]
            /\ now = 0
            /\ decoding = {}
            /\ analyses = {"a.mp3"}
            /\ estimator = [Call(Audio(sampleRate, ClipDuration, 0, FALSE)) EXCEPT
                                !.pc = "convert", !.bestLag = bestLag]
            /\ tapTimes = NoTaps
            /\ frame = 0
            /\ playingBefore = FALSE
            /\ cueTimer = NoTimer
            /\ cuePresses = NoPresses

ConvertNext == Convert \/ FoldStep

\* The conversion of a best lag to the tempo analyzeBPM returns
ConvertSpec == ConvertInit /\ [][ConvertNext]_vars

\* A deck whose file has been analysed, with the tempo found or not
TempoInit ==
    \E bpm \in {FZero, FromInt(DetectedBpm("a.mp3"))} :
        /\ state = [isPlaying |-> FALSE, currentTime |-> 0, buffer |-> "a.mp3",
                    duration |-> Duration("a.mp3"), cuePoints |-> <<>>,
                    fileName |-> "a.mp3", bpm |-> bpm, playbackRate |-> RateScale]
        /\ refs = [source |-> NullSource, startTime |-> 0, pausedAt |-> 0]
        /\ scratchState = [isScratching |-> FALSE, currentSample |-> 0, targetSample |-> 0,
                           wasPlayingBeforeScratch |-> FALSE, processor |-> NoBuffer]
        /\ connected = [procs |-> NoProcs, orphanSources |-> 0]
        /\ now = 0
        /\ decoding = {}
        /\ analyses = {}
        /\ estimator = NoCall
        /\ tapTimes = NoTaps
        /\ frame = 0
        /\ playingBefore = FALSE
        /\ cueTimer = NoTimer
        /\ cuePresses = NoPresses

TempoNext == HandleTap \/ SetPlaybackRate

\* Taps and moves of the pitch slider on a loaded deck
TempoSpec == TempoInit /\ [][TempoNext]_vars

----------------------------------------------------------------------------
(* Properties *)

\* C1: in every reachable state pausedAt and the reported currentTime lie in
\* [0, duration]
PositionsInRange ==
    /\ 0 <= refs.pausedAt /\ refs.pausedAt <= state.duration
    /\ 0 <= state.currentTime /\ state.currentTime <= state.duration

\* C2: the deck is never both playing and scratching, and a buffer source and a
\* scratch render callback are never attached to the output at the same time
PlaybackExcludesScratch ==
    /\ ~(state.isPlaying /\ scratchState.isScratching)
    /\ ~(refs.source # NullSource /\ NumProcs(connected) > 0)

\* C3: the completion of an analysis of a buffer that is no longer the deck's
\* current buffer is discarded: it does not set bpm
StaleAnalysisDiscarded ==
    [][\A b \in Buffers :
           (AnalysisResolve(b) /\ b # state.buffer) => state'.bpm = state.bpm]_vars

\* C4: a loadFile whose decode fails leaves the deck as it was before the call:
\* buffer, cue points, playback rate, fileName, isPlaying, the scratching flag, the
\* attached source, pausedAt, currentTime and bpm are all unchanged
FailedLoadLeavesDeck ==
    [][\A file \in Files :
           FailedLoad(file) =>
               /\ state' = state
               /\ refs'.source = refs.source
               /\ refs'.pausedAt = refs.pausedAt
               /\ scratchState'.isScratching = scratchState.isScratching]_vars

\* C5: after a successful load, whatever the deck state before, pausedAt = 0,
\* currentTime = 0, cuePoints = [], playbackRate = 1 and bpm = 0, and buffer and
\* duration are those of the newly decoded file
SuccessfulLoadResets ==
    [][\A file \in Files :
           DecodeResolve(file) =>
               /\ refs'.pausedAt = 0
               /\ state'.currentTime = 0
               /\ state'.cuePoints = <<>>
               /\ state'.playbackRate = RateScale
               /\ state'.bpm = 0
               /\ state'.buffer = file
               /\ state'.duration = Duration(file)]_vars

\* A decode is pending on a deck whose position, cue points, rate and bpm all
\* differ from what a load resets them to
LoadPendingOnUsedDeck ==
    /\ decoding # {}
    /\ state.buffer # NoBuffer
    /\ state.isPlaying
    /\ refs.pausedAt # 0
    /\ state.currentTime # 0
    /\ state.cuePoints # <<>>
    /\ state.playbackRate # RateScale
    /\ state.bpm # 0

\* Nothing is attached to the output of the deck
Silent ==
    /\ ~state.isPlaying
    /\ refs.source = NullSource
    /\ NumProcs(connected) = 0

\* Whatever is attached to the output renders the deck's current buffer
NoStaleOutput ==
    /\ refs.source.buffer \in {NoBuffer, state.buffer}
    /\ \A b \in Buffers : b # state.buffer => connected.procs[b] = 0

\* C6: loadFile tears down every active output (the source and the scratch render
\* callback) and clears isPlaying, and when the decoded buffer replaces the deck
\* state nothing renders the previous buffer any more, whatever was commanded while
\* the decode was pending
LoadTearsDownOutput ==
    [][/\ LoadFile => Silent'
       /\ \A file \in Files : DecodeResolve(file) => NoStaleOutput']_vars

\* clamp(t, 0, duration)
Clamp(t) == Max(0, Min(t, state.duration))

\* C7: with a buffer loaded, paused and not scratching, seek(t) sets pausedAt and
\* currentTime to clamp(t, 0, duration) and leaves isPlaying false and cuePoints,
\* playbackRate and bpm as they were
SeekWhilePaused ==
    [][\A time \in SeekTimes :
           (/\ SeekTo(time)
            /\ state.buffer # NoBuffer
            /\ ~state.isPlaying
            /\ ~scratchState.isScratching) =>
               /\ refs'.pausedAt = Clamp(time)
               /\ state'.currentTime = Clamp(time)
               /\ ~state'.isPlaying
               /\ state'.cuePoints = state.cuePoints
               /\ state'.playbackRate = state.playbackRate
               /\ state'.bpm = state.bpm]_vars

\* A paused deck with cue points, a detected bpm and a changed rate, sought past
\* the end of its track
PausedAtClampedSeek ==
    /\ state.buffer # NoBuffer
    /\ ~state.isPlaying
    /\ ~scratchState.isScratching
    /\ refs.pausedAt = state.duration
    /\ state.currentTime = state.duration
    /\ state.cuePoints # <<>>
    /\ state.playbackRate # RateScale
    /\ state.bpm # 0

\* play() starts output: a buffer is loaded and the deck neither plays nor scratches
PlayApplies ==
    /\ state.buffer # NoBuffer
    /\ ~state.isPlaying
    /\ ~scratchState.isScratching

\* The deck after a play() from start and a pause() elapsed ticks later
PausedAfter(start, elapsed) ==
    /\ refs'.pausedAt =
           Min(start + Elapsed(elapsed, 0, state.playbackRate), state.duration)
    /\ state'.currentTime = refs'.pausedAt
    /\ ~state'.isPlaying
    /\ refs'.source = NullSource

\* C8 as stated: play() then pause() after elapsed e at rate r gives
\* pausedAt' = min(pausedAt + e * r, duration), currentTime = pausedAt', isPlaying
\* false and no source
PlayPauseAdvances ==
    [][\A elapsed \in 0..MaxClock :
           (PlayApplies /\ PlayPause(elapsed)) =>
               PausedAfter(refs.pausedAt, elapsed)]_vars

\* The position play() starts from: pausedAt, or 0 when pausedAt has reached the end
StartOffset == IF refs.pausedAt >= state.duration THEN 0 ELSE refs.pausedAt

\* C8: play() then pause() after elapsed e at rate r, with nothing in between,
\* gives pausedAt' = min(s + e * r, duration) where s is the position play()
\* started from (pausedAt, or 0 if pausedAt >= duration), currentTime = pausedAt',
\* isPlaying false and no source
PlayPauseAdvancesFromStart ==
    [][\A elapsed \in 0..MaxClock :
           (PlayApplies /\ PlayPause(elapsed)) =>
               PausedAfter(StartOffset, elapsed)]_vars

\* A deck paused a while after it was started from the beginning of a track whose
\* end it did not reach
PausedAfterPlaying ==
    /\ state.buffer # NoBuffer
    /\ ~state.isPlaying
    /\ refs.source = NullSource
    /\ refs.startTime < now
    /\ refs.pausedAt = Elapsed(now, refs.startTime, state.playbackRate)
    /\ refs.pausedAt < state.duration
    /\ state.currentTime = refs.pausedAt

\* The position a query reports while playing
ReportedPosition == CalculatedTime(state, World)

\* C9: a rate change while playing and not scratching keeps the source, pausedAt
\* and startTime, and the reported position does not jump at the change
RateChangeKeepsPosition ==
    [][\A normalized \in SliderPositions :
           (/\ SetRate(TempoRate(normalized))
            /\ state.isPlaying
            /\ refs.source # NullSource
            /\ ~scratchState.isScratching) =>
               /\ refs'.source = [refs.source EXCEPT !.playbackRate = TempoRate(normalized)]
               /\ refs'.pausedAt = refs.pausedAt
               /\ refs'.startTime = refs.startTime
               /\ ReportedPosition' = ReportedPosition]_vars

\* The deck plays from an attached source
Playing == state.isPlaying /\ refs.source # NullSource

\* The deck after an auto-stop
AutoStopped ==
    /\ ~state.isPlaying
    /\ refs.source = NullSource
    /\ refs.pausedAt = 0
    /\ state.currentTime = 0

\* C10: a poll that computes a position at or past duration while playing stops
\* the deck (isPlaying false, no source, pausedAt = currentTime = 0), and a playing
\* deck left alone under fair polling reaches that state
AutoStopAtEnd ==
    /\ [][(Poll /\ Playing /\ ReportedPosition >= state.duration) => AutoStopped']_vars
    /\ (Playing ~> AutoStopped)

\* A deck that was playing has been stopped by a poll after its clock had advanced
StoppedAfterPlaying == AutoStopped /\ now > 0 /\ state.buffer # NoBuffer

\* C11: play() changes nothing and creates no source when no buffer is loaded,
\* when the deck is already playing, or when a scratch is in progress
PlayIsNoOp ==
    [][(/\ state.buffer = NoBuffer \/ state.isPlaying \/ scratchState.isScratching
        /\ Play) => UNCHANGED vars]_vars

\* A scratch is in progress on a loaded deck that was playing when it began
ScratchingDeck ==
    /\ state.buffer # NoBuffer
    /\ scratchState.isScratching
    /\ scratchState.wasPlayingBeforeScratch
    /\ refs.source = NullSource

\* C12: when play() applies it starts a source at pausedAt, or at 0 with pausedAt
\* reset to 0 if pausedAt >= duration, at the current playbackRate, records
\* startTime = now and sets isPlaying
PlayStartsOutput ==
    [][(PlayApplies /\ Play) =>
           /\ refs'.source = NewSource(state.buffer, StartOffset, state.playbackRate)
           /\ refs'.pausedAt = StartOffset
           /\ refs'.startTime = now
           /\ state'.isPlaying
           /\ state'.currentTime = StartOffset]_vars

\* A deck just started, after the clock has advanced, at a rate other than 1
JustStarted ==
    /\ state.isPlaying
    /\ refs.source # NullSource
    /\ refs.source.pos = refs.pausedAt
    /\ refs.startTime = now
    /\ now > 0
    /\ state.playbackRate # RateScale

\* C13: seek(t) while scratching only writes targetSample = clamp(t, 0, duration)
\* * sampleRate: currentSample, pausedAt, currentTime, isPlaying and the attached
\* outputs are as before the call
SeekWhileScratching ==
    [][\A time \in SeekTimes :
           (/\ scratchState.isScratching
            /\ state.buffer # NoBuffer
            /\ SeekTo(time)) =>
               /\ scratchState' = [scratchState EXCEPT
                                       !.targetSample = Clamp(time) * SampleRate(state.buffer)]
               /\ UNCHANGED <<state, refs, connected>>]_vars

\* A scratch whose target has been moved to the end of the track and away from the
\* playhead of the scratch
ScratchTargetMoved ==
    /\ scratchState.isScratching
    /\ state.buffer # NoBuffer
    /\ scratchState.targetSample = state.duration * SampleRate(state.buffer)
    /\ scratchState.currentSample # scratchState.targetSample

\* C14: seek(t) while playing and not scratching sets pausedAt = clamp(t, 0,
\* duration), restarts the source there, resets startTime = now and keeps isPlaying,
\* so that the position reported right afterwards is clamp(t, 0, duration)
SeekWhilePlaying ==
    [][\A time \in SeekTimes :
           (/\ state.isPlaying
            /\ ~scratchState.isScratching
            /\ state.buffer # NoBuffer
            /\ SeekTo(time)) =>
               /\ refs'.pausedAt = Clamp(time)
               /\ refs'.source = NewSource(state.buffer, Clamp(time), state.playbackRate)
               /\ refs'.startTime = now
               /\ state'.isPlaying
               /\ state'.currentTime = Clamp(time)
               /\ ReportedPosition' = Clamp(time)]_vars

\* A playing deck that has just been sought to the end of its track, after the
\* clock had advanced
SoughtWhilePlaying ==
    /\ state.isPlaying
    /\ refs.source # NullSource
    /\ refs.pausedAt = state.duration
    /\ refs.source.pos = state.duration
    /\ refs.startTime = now
    /\ now > 0

\* C15: whenever the deck is neither playing nor scratching, the reported
\* currentTime equals pausedAt
PausedTimeIsPausedAt ==
    (~state.isPlaying /\ ~scratchState.isScratching) =>
        state.currentTime = refs.pausedAt

\* C16: startScratch() with a buffer loaded records wasPlayingBeforeScratch =
\* isPlaying, stops the playing source, sets currentSample = targetSample =
\* pausedAt * sampleRate, sets isScratching with isPlaying false, and attaches the
\* render callback
StartScratchEnters ==
    [][(state.buffer # NoBuffer /\ StartScratch) =>
           /\ scratchState' =
                  [isScratching |-> TRUE,
                   currentSample |-> refs.pausedAt * SampleRate(state.buffer),
                   targetSample |-> refs.pausedAt * SampleRate(state.buffer),
                   wasPlayingBeforeScratch |-> state.isPlaying,
                   processor |-> state.buffer]
           /\ ~state'.isPlaying
           /\ refs'.source = NullSource
           /\ refs'.pausedAt = refs.pausedAt
           /\ connected'.procs =
                  [connected.procs EXCEPT ![state.buffer] = @ + 1]]_vars

\* A scratch that has just begun on a deck that was playing from a position
\* other than 0
ScratchBegunWhilePlaying ==
    /\ scratchState.isScratching
    /\ scratchState.wasPlayingBeforeScratch
    /\ state.buffer # NoBuffer
    /\ refs.pausedAt > 0
    /\ scratchState.currentSample = refs.pausedAt * SampleRate(state.buffer)
    /\ scratchState.targetSample = scratchState.currentSample
    /\ connected.procs[state.buffer] = 1
    /\ refs.source = NullSource
    /\ ~state.isPlaying

\* The position stopScratch reconciles to: currentSample / sampleRate
Reconciled == SamplesToTime(scratchState.currentSample, state.buffer)

\* The deck after a stopScratch() that leaves it at position t
ScratchStoppedAt(t) ==
    /\ ~scratchState'.isScratching
    /\ scratchState'.processor = NoBuffer
    /\ connected'.procs =
           IF scratchState.processor # NoBuffer
           THEN [connected.procs EXCEPT ![scratchState.processor] = @ - 1]
           ELSE connected.procs
    /\ refs'.pausedAt = t
    /\ state'.currentTime = t
    /\ state'.isPlaying = scratchState.wasPlayingBeforeScratch
    /\ refs'.source = IF scratchState.wasPlayingBeforeScratch
                      THEN NewSource(state.buffer, t, state.playbackRate)
                      ELSE NullSource

\* C17 as stated: stopScratch() while scratching removes the render callback,
\* clears isScratching, sets pausedAt = currentTime = currentSample / sampleRate,
\* and leaves the deck playing from there if and only if wasPlayingBeforeScratch
StopScratchReconciles ==
    [][(/\ scratchState.isScratching
        /\ state.buffer # NoBuffer
        /\ StopScratch) => ScratchStoppedAt(Reconciled)]_vars

\* C17: stopScratch() while scratching removes the render callback, clears
\* isScratching and reconciles to currentSample / sampleRate; with
\* wasPlayingBeforeScratch it resumes playing from there, or from 0 with pausedAt =
\* currentTime = 0 when the reconciled position is at or past duration; without, it
\* stays paused at the reconciled position
StopScratchReconcilesOrWraps ==
    [][(/\ scratchState.isScratching
        /\ state.buffer # NoBuffer
        /\ StopScratch) =>
           ScratchStoppedAt(IF /\ scratchState.wasPlayingBeforeScratch
                               /\ Reconciled >= state.duration
                            THEN 0 ELSE Reconciled)]_vars

\* A deck that resumed playing, after a scratch, from inside the track at the
\* position the scratch had reached
ResumedAfterScratch ==
    /\ state.isPlaying
    /\ ~scratchState.isScratching
    /\ scratchState.wasPlayingBeforeScratch
    /\ scratchState.processor = NoBuffer
    /\ refs.pausedAt = SamplesToTime(scratchState.currentSample, state.buffer)
    /\ refs.pausedAt > 0
    /\ refs.source = NewSource(state.buffer, refs.pausedAt, state.playbackRate)

\* C18: jumpToNextCue while scratching stops the scratch and then seeks: afterwards
\* isScratching is false, the render callback is removed, pausedAt = currentTime =
\* target, and if the deck resumed playing its source was started at target
JumpWhileScratching ==
    [][(/\ scratchState.isScratching
        /\ state.buffer # NoBuffer
        /\ JumpToNextCue) =>
           LET target == NextCueTarget(state.cuePoints, state.currentTime)
           IN /\ ~scratchState'.isScratching
              /\ scratchState'.processor = NoBuffer
              /\ refs'.pausedAt = target
              /\ state'.currentTime = target
              /\ state'.isPlaying =>
                     refs'.source = NewSource(state.buffer, target, state.playbackRate)]_vars

\* C19: every sample-array read of the scratch render callback uses an index in
\* [0, bufferLength - 1]: frames whose position is out of that range read nothing
ScratchReadsInRange ==
    \A b \in Buffers :
        connected.procs[b] > 0 =>
            BlockReads(scratchState.currentSample, scratchState.targetSample,
                       BlockFrames, b) \subseteq 0..(BufferLength(b) - 1)

\* A connected render callback whose next block reads the last sample of its buffer
\* and then runs past the end into silent frames
ScratchRunsPastEnd ==
    \E b \in Buffers :
        /\ connected.procs[b] > 0
        /\ scratchState.currentSample < BufferLength(b) - 1
        /\ scratchState.targetSample > BufferLength(b) - 1
        /\ (BufferLength(b) - 1) \in
               BlockReads(scratchState.currentSample, scratchState.targetSample,
                          BlockFrames, b)

\* C20: cuePoints is strictly ascending and no two cue points lie within 0.1 s of
\* each other
CuePointsSortedApart ==
    /\ \A i \in 1..(Len(state.cuePoints) - 1) :
           state.cuePoints[i] < state.cuePoints[i + 1]
    /\ \A i, j \in 1..Len(state.cuePoints) :
           i # j => Abs(state.cuePoints[i] - state.cuePoints[j]) >= CueTolerance

\* Two cue points are stored and the deck stands within 0.1 s of one of them
\* without being on it
NearStoredCue ==
    /\ Len(state.cuePoints) >= 2
    /\ \E i \in 1..Len(state.cuePoints) :
           /\ state.cuePoints[i] # state.currentTime
           /\ Abs(state.cuePoints[i] - state.currentTime) < CueTolerance

\* The stored cue points within 0.1 s of t
CuesNear(cues, t) == {i \in 1..Len(cues) : Abs(cues[i] - t) < CueTolerance}

FarFromDeck(c) == Abs(c - state.currentTime) >= CueTolerance

\* C22: removeCuePoint at time t removes every stored cue point within 0.1 s of t
\* and leaves the other cue points and their order unchanged, so that afterwards no
\* stored cue point lies within 0.1 s of t
RemoveCuePointFilters ==
    [][RemoveCuePoint =>
           /\ state'.cuePoints = SelectSeq(state.cuePoints, FarFromDeck)
           /\ CuesNear(state'.cuePoints, state.currentTime) = {}]_vars

\* The deck stands within 0.1 s of two stored cue points, with a third one farther
\* away, and removeCuePoint there removes the two and keeps the third
TwoCuesRemovable ==
    /\ Len(state.cuePoints) = 3
    /\ Cardinality(CuesNear(state.cuePoints, state.currentTime)) = 2
    /\ ENABLED (RemoveCuePoint /\ Len(state'.cuePoints) = 1)

\* The least element of a non-empty set of positions
Least(S) == CHOOSE c \in S : \A d \in S : c <= d

\* The stored cue points, as a set
StoredCues == {state.cuePoints[i] : i \in 1..Len(state.cuePoints)}

\* The smallest stored cue point > t + 0.05, else the smallest stored cue point,
\* else 0
CueAfter(t) ==
    LET later == {c \in StoredCues : c > t + JumpEpsilon}
    IN IF StoredCues = {} THEN 0
       ELSE IF later # {} THEN Least(later)
       ELSE Least(StoredCues)

\* C23: jumpToNextCue at time t goes to the smallest cue point > t + 0.05, wraps to
\* the smallest cue point if none is greater and goes to 0 when there is no cue
\* point (cues [10, 20, 30] s: t = 25 s gives 30 s, t = 35 s gives 10 s); from a
\* cue point a jump on a paused deck goes to the next one in ascending cyclic order
JumpTargetsNextCue ==
    /\ [][(/\ JumpToNextCue
            /\ state.buffer # NoBuffer
            /\ ~scratchState.isScratching) =>
               /\ state'.currentTime = CueAfter(state.currentTime)
               /\ refs'.pausedAt = CueAfter(state.currentTime)
               /\ \A i \in 1..Len(state.cuePoints) :
                      (~state.isPlaying /\ state.currentTime = state.cuePoints[i]) =>
                          state'.currentTime =
                              state.cuePoints[(i % Len(state.cuePoints)) + 1]]_vars
    /\ [](/\ NextCueTarget(<<1000, 2000, 3000>>, 2500) = 3000
          /\ NextCueTarget(<<1000, 2000, 3000>>, 3500) = 1000)

\* A paused deck stands on the last of three cue points, and a jump from there
\* wraps to the first
JumpWraps ==
    /\ ~state.isPlaying
    /\ ~scratchState.isScratching
    /\ Len(state.cuePoints) = 3
    /\ state.currentTime = state.cuePoints[3]
    /\ state.cuePoints[1] > 0
    /\ ENABLED (JumpToNextCue /\ state'.currentTime = state.cuePoints[1])

\* C24: with no buffer loaded, play(), seek(t), startScratch() and jumpToNextCue()
\* leave the whole deck unchanged: isPlaying, pausedAt, currentTime, the scratch
\* state and the attached outputs
NoBufferNoOps ==
    [][(/\ state.buffer = NoBuffer
        /\ Play \/ Seek \/ StartScratch \/ JumpToNextCue) => UNCHANGED vars]_vars

\* No buffer is loaded yet while a decode is pending and a cue point is stored
CommandsBeforeBuffer ==
    /\ state.buffer = NoBuffer
    /\ state.fileName # NoBuffer
    /\ decoding # {}
    /\ state.cuePoints # <<>>

\* C25: with no buffer loaded, addCuePoint() and removeCuePoint() change nothing,
\* and cuePoints is empty as long as no buffer has been loaded
CuesNeedBuffer ==
    /\ [][(/\ state.buffer = NoBuffer
           /\ (AddCuePoint \/ RemoveCuePoint)) => UNCHANGED vars]_vars
    /\ [](state.buffer = NoBuffer => state.cuePoints = <<>>)

\* The analysed track has no sound in it
SilentTrack(buffer) == \A n \in DOMAIN buffer.levels : buffer.levels[n] = 0

\* The followed call has ended: it has returned, or its promise has also settled
Ended == estimator.pc \in {"returned", "settled"}

MaxFolds == 4

\* 60 * effectiveRate / bestLag rounded to one decimal, doubled while it is below 70,
\* then halved while it is above 160, then rounded to an integer
FoldedTempo(buffer, bestLag) ==
    LET tenths == CalculatedBpm(buffer, bestLag).num
        up == CHOOSE u \in 0..MaxFolds :
                  /\ tenths * Pow2(u) >= MinBPM * Tenth
                  /\ u > 0 => tenths * Pow2(u - 1) < MinBPM * Tenth
        down == CHOOSE d \in 0..MaxFolds :
                  /\ tenths * Pow2(up) <= MaxBPM * Tenth * Pow2(d)
                  /\ d > 0 => tenths * Pow2(up) > MaxBPM * Tenth * Pow2(d - 1)
    IN Rounded([num |-> tenths * Pow2(up), den |-> Tenth * Pow2(down)])

\* C27: a result of analyzeBPM other than 0 is an integer from 70 to 160, and it is
\* 60 * effectiveRate / bestLag rounded to one decimal, doubled while below 70,
\* halved while above 160 and then rounded, for every best lag from minLag to maxLag.
TempoWithinRange ==
    (estimator.pc = "returned" /\ estimator.result # 0)
        => /\ estimator.bestLag \in MinLag(estimator.buffer)..MaxLag(estimator.buffer)
           /\ estimator.result \in MinBPM..MaxBPM
           /\ estimator.result = FoldedTempo(estimator.buffer, estimator.bestLag)

\* C27 witness: a lag whose tempo rounds to 160.1 was halved, and 80 was returned
HalvedTempo ==
    /\ estimator.pc = "returned"
    /\ estimator.bestLag = MinLag(estimator.buffer)
    /\ estimator.calculatedBpm.den = 2 * Tenth
    /\ estimator.result = 80

\* C28: analyzeBPM ends for every decoded buffer: each run of the decimation loop
\* moves its index forward, the page is never lost in it, and a call that was made
\* comes to its return.
AnalysisTerminates ==
    /\ [][(DecimateBlock /\ estimator'.pc = "decimate") => estimator'.i > estimator.i]_vars
    /\ [](estimator.pc # "aborted")
    /\ (estimator.pc = "called") ~> Ended

\* The beat period of a tempo in samples of the decimated envelope
BeatLag(buffer, tempo) ==
    (buffer.sampleRate * Minute) \div (DecimationStep(buffer) * tempo)

\* The envelope of the followed call has an impulse on every beat of the tempo and
\* is 0 elsewhere
ImpulseTrain(tempo) ==
    /\ DOMAIN estimator.downsampled.at # {}
    /\ \A p \in 0..(estimator.downsampled.length - 1) :
           p \in DOMAIN estimator.downsampled.at
               <=> (p > 0 /\ p % BeatLag(estimator.buffer, tempo) = 0)
    /\ \A p \in DOMAIN estimator.downsampled.at : estimator.downsampled.at[p] = 1

\* C29: on an envelope that is a periodic impulse train at exactly 120 BPM the
\* estimator finds the beat period as its best lag and returns 120.
ImpulseTrainGives120 ==
    (estimator.pc = "returned" /\ ~estimator.caught /\ ImpulseTrain(120))
        => /\ estimator.bestLag = BeatLag(estimator.buffer, 120)
           /\ estimator.result = 120

\* C29 witness: a call on a 120 BPM impulse train, decimated by 7 from 44100 Hz, has
\* returned 120
Returned120 ==
    /\ estimator.pc = "returned"
    /\ ImpulseTrain(120)
    /\ DecimationStep(estimator.buffer) = 7
    /\ estimator.downsampled.length > MaxLag(estimator.buffer)
    /\ estimator.result = 120

\* The step is a tap that gave a measurement
Measured == tapTimes'.count > 1 /\ HandleTap

PlaybackRatePositive ==
    /\ state.playbackRate > 0
    /\ refs.source # NullSource => refs.source.playbackRate > 0

\* C31 witness: a loaded deck plays at the lowest rate of the slider, set by a
\* pointer on or below the bottom of the rail
SlowestRate ==
    /\ state.buffer # NoBuffer
    /\ state.playbackRate = RateScale - PITCH_RANGE
    /\ refs.source # NullSource
    /\ refs.source.playbackRate = state.playbackRate

\* C32: each rendered frame moves currentSample by half of targetSample -
\* currentSample toward the target (exactly half when the difference is even in the
\* last place, else half rounded to a neighbouring position) and writes nothing of
\* the scratch state but currentSample; it never passes the target, so a frame that
\* starts with both positions in [0, duration x sampleRate] ends there; and once the writes to targetSample
\* cease while a callback stays attached, currentSample ends within one unit of the
\* last place of the target, whatever writes and blocks came before
FrameHalvesTheGap ==
    /\ [][RenderFrame =>
             LET diff == scratchState.targetSample - scratchState.currentSample
                 step == scratchState'.currentSample - scratchState.currentSample
             IN /\ scratchState' = [scratchState EXCEPT !.currentSample = @ + step]
                /\ UNCHANGED <<state, refs, connected>>
                /\ 2 * step \in {diff - 1, diff, diff + 1}
                /\ diff % 2 = 0 => 2 * step = diff
                /\ Abs(step) <= Abs(diff)
                /\ step * diff >= 0
                /\ Abs(diff - step) <= (Abs(diff) + 1) \div 2
                /\ \A b \in Files :
                       (/\ scratchState.currentSample \in 0..BufferLength(b)
                        /\ scratchState.targetSample \in 0..BufferLength(b)) =>
                           scratchState'.currentSample \in 0..BufferLength(b)]_vars
    /\ (/\ <>[][scratchState'.targetSample = scratchState.targetSample]_vars
        /\ <>[](NumProcs(connected) > 0))
           => <>[](Abs(scratchState.targetSample - scratchState.currentSample) <= 1)

\* C32 as stated: every frame moves currentSample by exactly half of the gap, and
\* once the writes to targetSample cease currentSample ends on the target
FrameHalvesExactly ==
    /\ [][RenderFrame =>
             2 * (scratchState'.currentSample - scratchState.currentSample) =
                 scratchState.targetSample - scratchState.currentSample]_vars
    /\ (/\ <>[][scratchState'.targetSample = scratchState.targetSample]_vars
        /\ <>[](NumProcs(connected) > 0))
           => <>[](scratchState.currentSample = scratchState.targetSample)

\* A frame in the middle of a block that follows a write of the target: the gap has
\* been halved down to an odd number of units
GapBeingHalved ==
    /\ scratchState.isScratching
    /\ frame \in 1..(BlockFrames - 3)
    /\ Abs(scratchState.targetSample - scratchState.currentSample) = 15

\* C33: a move of the platter during a scratch takes the angle turned since the last
\* move, brought into -pi..pi by a full turn, as delta / 2 pi x 1.8 s of track, and
\* writes targetSample = clamp(displayed currentTime + that time, 0, duration) x
\* sampleRate; it writes nothing else, whatever the angle of the pointer itself
GestureMovesTarget ==
    [][\A lastAngle \in Angles, currentAngle \in Angles :
           (/\ scratchState.isScratching
            /\ HandleLpMove(lastAngle, currentAngle)) =>
               LET delta == currentAngle - lastAngle
                   turned == IF delta > HalfTurn THEN delta - 2 * HalfTurn
                             ELSE IF delta < -HalfTurn THEN delta + 2 * HalfTurn
                             ELSE delta
                   time == state.currentTime +
                               (turned * SECONDS_PER_REVOLUTION) \div (2 * HalfTurn)
               IN /\ scratchState' = [scratchState EXCEPT !.targetSample =
                                          Max(0, Min(time, state.duration)) *
                                              SampleRate(state.buffer)]
                  /\ UNCHANGED <<state, refs, connected>>]_vars

\* A scratch in the middle of the track whose target was set a sixth of a turn ahead
\* of the displayed time by a move across the -pi / pi line
TargetAheadOfDisplay ==
    /\ scratchState.isScratching
    /\ state.currentTime \in 1..(state.duration - 31)
    /\ scratchState.targetSample = (state.currentTime + 30) * SampleRate(state.buffer)
    /\ scratchState.currentSample # scratchState.targetSample
    /\ ENABLED HandleLpMove(150, -150)

\* The offsets i of the scan for the loudest window
ScanOffsets(buffer) ==
    {k * ScanStep(buffer) : k \in 0..(buffer.duration \div ScanSeconds)}
        \cap 0..(RawLength(buffer) - WindowSize(buffer) - 1)

\* The lags of the search with a positive autocorrelation sum
PositiveLags(e) ==
    {lag \in MinLag(e.buffer)..MaxLag(e.buffer) : Correlation(e.downsampled, lag) > 0}

ScratchRestoresPlaying ==
    [][(scratchState.isScratching /\ StopScratch) =>
           (~scratchState'.isScratching /\ state'.isPlaying = playingBefore)]_vars

\* C36: startScratch() on a playing deck begins the scratch where the deck is
\* playing: right after it currentSample / sampleRate is pausedAt + (now -
\* startTime) x playbackRate, the position the poll would report
ScratchBeginsAtPlayPosition ==
    [][(/\ state.isPlaying
        /\ refs.source # NullSource
        /\ state.buffer # NoBuffer
        /\ StartScratch) =>
           SamplesToTime(scratchState'.currentSample, state.buffer) =
               CalculatedTime(state, World)]_vars

\* C37: a scratch render callback is connected to the output of the deck exactly
\* while isScratching holds, and never more than one
OneCallbackWhileScratching ==
    /\ NumProcs(connected) > 0 <=> scratchState.isScratching
    /\ NumProcs(connected) <= 1

\* C38: isPlaying holds exactly while a buffer source is attached, and an attached
\* source plays the buffer the deck holds, also while a decode is pending
PlayingIffSourceOfBuffer ==
    /\ state.isPlaying <=> refs.source # NullSource
    /\ refs.source # NullSource => refs.source.buffer = state.buffer

\* C39: every stored cue point lies within the track the deck holds, from 0 to its
\* duration
CuePointsWithinTrack ==
    \A i \in 1..Len(state.cuePoints) :
        /\ state.cuePoints[i] >= 0
        /\ state.cuePoints[i] <= (IF state.buffer = NoBuffer THEN 0
                                  ELSE Duration(state.buffer))

\* C40: each press of the CUE button triggers exactly one cue action. A release or
\* a pointer leaving with the timer pending calls jumpToNextCue and nothing else;
\* the timer running out calls removeCuePoint if the deck is not playing and a cue
\* point lies within 0.1 s of currentTime, else addCuePoint; a release after that
\* changes nothing
OneActionPerPress ==
    /\ [](cuePresses.actions = cuePresses.presses - (IF cueTimer.armed THEN 1 ELSE 0))
    /\ [][(HandleCueUp /\ cueTimer.armed) =>
             LET w == jumpToNextCue(state, World)
             IN /\ cuePresses'.last = "jump"
                /\ state' = w.st /\ refs' = w.refs
                /\ scratchState' = w.ss /\ connected' = w.conn]_vars
    /\ [][(HandleCueUp /\ ~cueTimer.armed) =>
             UNCHANGED <<state, refs, scratchState, connected>>]_vars
    /\ [][CueTimerFires =>
             LET held == HeldCueLive(state, World)
             IN /\ cuePresses'.last = held.did
                /\ state' = held.w.st /\ refs' = held.w.refs
                /\ scratchState' = held.w.ss /\ connected' = held.w.conn]_vars

====
